---- MODULE Spec2Model ----
(***************************************************************************)
(* Waggen: state identity (StateManager), the state graph with its path    *)
(* search (StateGraph), the interactive session controller                 *)
(* (InteractiveExplorer) driven by the handlers of InteractiveServer, and  *)
(* session persistence (SessionManager).                                   *)
(*                                                                         *)
(* State ids `state_001`, `state_002`, ... are modelled by the counter     *)
(* value they are formatted from (padStart never truncates, so the         *)
(* formatting is injective); the unset id '' is 0.                         *)
(***************************************************************************)
EXTENDS Integers, Sequences, FiniteSets, TLC

VARIABLES
    page,               \* InteractiveExplorer.page: what the browser shows, or NoPage
    smStates,           \* StateManager.states (insertion order)
    stateCounter,       \* StateManager.stateCounter
    exploredActions,    \* StateManager.exploredActions: state id -> set of action keys
    gStates,            \* StateGraph.states: the ids, in insertion order
    gTransitions,       \* StateGraph.transitions
    gEntry,             \* StateGraph.entryStateId
    currentStateId,     \* InteractiveExplorer.currentStateId
    entryStateId,       \* InteractiveExplorer.entryStateId
    pathFromRoot,       \* InteractiveExplorer.pathFromRoot
    skippedActions,     \* InteractiveExplorer.skippedActions: set of <<stateId, actionKey>>
    explorationHistory, \* InteractiveExplorer.explorationHistory
    executionLock,      \* InteractiveExplorer.executionLock
    tasks,              \* the handler invocations of InteractiveServer in flight
    captureLog,         \* the <<state key, returned id>> pairs of the captures made
    clock,              \* Date.now()
    memSession,         \* the session object handed to SessionManager.save
    file,               \* the content of the session file
    lastCall,           \* the last call made and what it returned
    config,             \* Explorer.config: maxStates and maxDepth
    explorationQueue,   \* Explorer.explorationQueue
    engine,             \* where the autonomous run of Explorer is
    sockets             \* InteractiveServer.clients and the state of each socket

browserVars == <<page>>
managerVars == <<smStates, stateCounter, exploredActions>>
graphVars == <<gStates, gTransitions, gEntry>>
explorerVars == <<currentStateId, entryStateId, pathFromRoot, skippedActions,
                  explorationHistory, executionLock>>
sessionVars == <<clock, memSession, file>>
engineVars == <<config, explorationQueue, engine>>
serverVars == <<sockets>>
vars == <<page, smStates, stateCounter, exploredActions, gStates, gTransitions,
          gEntry, currentStateId, entryStateId, pathFromRoot, skippedActions,
          explorationHistory, executionLock, tasks, captureLog, clock,
          memSession, file, lastCall, config, explorationQueue, engine,
          sockets>>

-----------------------------------------------------------------------------
(* Sequences *)

SeqToSet(s) == {s[i] : i \in 1..Len(s)}

Last(s) == s[Len(s)]

SetMin(S) == CHOOSE x \in S : \A y \in S : x <= y

-----------------------------------------------------------------------------
(* The application under exploration, as the browser shows it *)

NoPage == [url |-> [path |-> "none", query |-> "none"], domHash |-> "none"]
NoState == 0
\* What a lookup of an absent state returns.
NoStateObject == [id |-> NoState]
Undefined == "undefined"

\* A URL is its pathname and its query string.
Urls == {[path |-> "/", query |-> ""], [path |-> "/", query |-> "?x"],
         [path |-> "/a", query |-> ""]}

Hashes == {"h1", "h2"}

\* Every page the browser can show: a URL and the DOM fingerprint of its content.
AllPages == [url : Urls, domHash : Hashes]

\* The pages of the application the interactive session explores.
BrowserPages == {[url |-> [path |-> "/", query |-> ""], domHash |-> "h1"],
                 [url |-> [path |-> "/", query |-> ""], domHash |-> "h2"],
                 [url |-> [path |-> "/a", query |-> ""], domHash |-> "h1"]}

ClickA == [type |-> "click", elementSelector |-> "#a", value |-> Undefined]
InputB == [type |-> "input", elementSelector |-> "#b", value |-> "Test item"]
\* The same element and type as ClickA, recorded with another value.
ClickAv == [type |-> "click", elementSelector |-> "#a", value |-> "v"]

\* The actions recorded in the graphs that path search is tried on.
GraphActions == {ClickA, InputB}

\* The actions a client of the interactive session can name.
Actions == {ClickA}

\* The actions generated for the elements discovered on a page: every page of
\* the application shows the button, and some the input field as well.
ElementActions(pg) == IF pg.domHash = "h2" THEN <<ClickA, InputB>> ELSE <<ClickA>>

getActionKey(action) ==
    <<action.type, action.elementSelector,
      IF action.value = Undefined THEN "" ELSE action.value>>

-----------------------------------------------------------------------------
(* StateManager *)

\* As computeStateKey, keeping the whole URL instead of its pathname.
computeStateKey_FullUrl(url, domHash) == <<url, domHash>>

computeStateKey(url, domHash) == <<url.path, domHash>>

findStateByKey(states, stateKey) ==
    LET hits == {i \in 1..Len(states) :
                    computeStateKey(states[i].url, states[i].domHash) = stateKey}
    IN  IF hits = {} THEN NoStateObject ELSE states[SetMin(hits)]

\* captureState: the state returned and the manager's fields afterwards.
captureState(states, counter, explored, pg, now) ==
    LET existingState == findStateByKey(states, computeStateKey(pg.url, pg.domHash))
        state == [id |-> counter + 1, url |-> pg.url, domHash |-> pg.domHash,
                  elements |-> ElementActions(pg), timestamp |-> now]
    IN  IF existingState.id # NoState
        THEN [state |-> existingState, states |-> states, counter |-> counter,
              explored |-> explored]
        ELSE [state |-> state, states |-> Append(states, state),
              counter |-> counter + 1,
              explored |-> [id \in DOMAIN explored \cup {state.id} |->
                               IF id = state.id THEN {} ELSE explored[id]]]

getState(states, stateId) ==
    LET hits == {i \in 1..Len(states) : states[i].id = stateId}
    IN  IF hits = {} THEN NoStateObject ELSE states[SetMin(hits)]

\* As markActionExplored, marking nothing.
markActionExplored_Never(explored, stateId, action) == explored

markActionExplored(explored, stateId, action) ==
    IF stateId \in DOMAIN explored
    THEN [explored EXCEPT ![stateId] = @ \cup {getActionKey(action)}]
    ELSE explored

isActionExplored(explored, stateId, action) ==
    IF stateId \in DOMAIN explored
    THEN getActionKey(action) \in explored[stateId]
    ELSE FALSE

-----------------------------------------------------------------------------
(* StateGraph *)

\* As addState, with a map that holds the state added last alone.
addState_Only(states, stateId) == <<stateId>>

addState(states, stateId) ==
    IF stateId \notin SeqToSet(states) THEN Append(states, stateId) ELSE states

\* As sameTransition, comparing the transitions' ids instead of their fields.
sameTransition_ById(t, transition) == t.id = transition.id

\* As sameTransition, comparing the actions alone.
sameTransition_ActionOnly(t, transition) ==
    /\ t.action.elementSelector = transition.action.elementSelector
    /\ t.action.type = transition.action.type

sameTransition(t, transition) ==
    /\ t.fromStateId = transition.fromStateId
    /\ t.toStateId = transition.toStateId
    /\ t.action.elementSelector = transition.action.elementSelector
    /\ t.action.type = transition.action.type

addTransition(transitions, transition) ==
    LET exists == \E i \in 1..Len(transitions) :
                      sameTransition(transitions[i], transition)
    IN  IF ~exists THEN Append(transitions, transition) ELSE transitions

RECURSIVE getTransitionsFrom(_, _)
getTransitionsFrom(transitions, stateId) ==
    IF transitions = <<>> THEN <<>>
    ELSE IF Head(transitions).fromStateId = stateId
         THEN <<Head(transitions)>> \o getTransitionsFrom(Tail(transitions), stateId)
         ELSE getTransitionsFrom(Tail(transitions), stateId)

\* As pushSuccessors, with the membership test skipping the path's first element.
RECURSIVE pushSuccessors_SkipFirst(_, _, _)
pushSuccessors_SkipFirst(outgoing, path, targetStateId) ==
    IF outgoing = <<>> THEN <<>>
    ELSE LET to == Head(outgoing).toStateId
             rest == pushSuccessors_SkipFirst(Tail(outgoing), path, targetStateId)
         IN  IF to \notin SeqToSet(Tail(path)) \/ to = targetStateId
             THEN <<Append(path, to)>> \o rest
             ELSE rest

\* The successors pushed for one dequeued item, in the order of its outgoing
\* transitions.
RECURSIVE pushSuccessors(_, _, _)
pushSuccessors(outgoing, path, targetStateId) ==
    IF outgoing = <<>> THEN <<>>
    ELSE LET to == Head(outgoing).toStateId
             rest == pushSuccessors(Tail(outgoing), path, targetStateId)
         IN  IF to \notin SeqToSet(path) \/ to = targetStateId
             THEN <<Append(path, to)>> \o rest
             ELSE rest

\* As findPathsLoop, taking the item pushed last (pop) instead of the first.
RECURSIVE findPathsLoop_Stack(_, _, _, _, _, _)
findPathsLoop_Stack(transitions, queue, allPaths, visited, targetStateId, maxPaths) ==
    IF ~(Len(queue) > 0 /\ Len(allPaths) < maxPaths) THEN allPaths
    ELSE LET path == Last(queue)
             rest == SubSeq(queue, 1, Len(queue) - 1)
             stateId == Last(path)
         IN  IF stateId = targetStateId
             THEN findPathsLoop_Stack(transitions, rest, Append(allPaths, path),
                                      visited, targetStateId, maxPaths)
             ELSE IF path \in visited
             THEN findPathsLoop_Stack(transitions, rest, allPaths, visited,
                                      targetStateId, maxPaths)
             ELSE findPathsLoop_Stack(transitions,
                                      rest \o pushSuccessors(
                                          getTransitionsFrom(transitions, stateId),
                                          path, targetStateId),
                                      allPaths, visited \cup {path}, targetStateId,
                                      maxPaths)

\* The loop of findPathsTo; a queue item is its path, whose last element is the
\* item's stateId, and the key of a path (its join with '->') is the path.
RECURSIVE findPathsLoop(_, _, _, _, _, _)
findPathsLoop(transitions, queue, allPaths, visited, targetStateId, maxPaths) ==
    IF ~(Len(queue) > 0 /\ Len(allPaths) < maxPaths) THEN allPaths
    ELSE LET path == Head(queue)
             stateId == Last(path)
         IN  IF stateId = targetStateId
             THEN findPathsLoop(transitions, Tail(queue), Append(allPaths, path),
                                visited, targetStateId, maxPaths)
             ELSE IF path \in visited
             THEN findPathsLoop(transitions, Tail(queue), allPaths, visited,
                                targetStateId, maxPaths)
             ELSE findPathsLoop(transitions,
                                Tail(queue) \o pushSuccessors(
                                    getTransitionsFrom(transitions, stateId),
                                    path, targetStateId),
                                allPaths, visited \cup {path}, targetStateId,
                                maxPaths)

findPathsTo(transitions, entry, targetStateId, maxPaths) ==
    IF targetStateId = entry THEN << <<entry>> >>
    ELSE findPathsLoop(transitions, << <<entry>> >>, <<>>, {}, targetStateId,
                       maxPaths)

\* As DefaultMaxPaths, for a loop that goes on while allPaths.length <= maxPaths.
DefaultMaxPaths_Four == 3 + 1

DefaultMaxPaths == 3

\* computePaths: a record of path lists by state id; no key at all if the
\* entry state id is unset.
computePaths(states, transitions, entry) ==
    IF entry = NoState THEN [id \in {} |-> <<>>]
    ELSE [id \in SeqToSet(states) |->
             findPathsTo(transitions, entry, id, DefaultMaxPaths)]

-----------------------------------------------------------------------------
(* SessionManager: save, load and migrate *)

CURRENT_VERSION == 1

\* The fields of an ExplorationSession, in the order toSession and migrate
\* write them.  An object is a function on the keys it defines: a key outside
\* its domain reads as undefined.
SessionKeys == <<"version", "id", "appUrl", "createdAt", "lastUpdatedAt",
                 "currentStateId", "entryStateId", "stateGraph",
                 "skippedActions", "explorationHistory">>

has(data, key) == key \in DOMAIN data

\* JSON.stringify(session): the defined keys with their values, in order.
RECURSIVE stringifyFrom(_, _)
stringifyFrom(object, i) ==
    IF i > Len(SessionKeys) THEN <<>>
    ELSE IF has(object, SessionKeys[i])
         THEN <<(<<SessionKeys[i], object[SessionKeys[i]]>>)>>
                  \o stringifyFrom(object, i + 1)
         ELSE stringifyFrom(object, i + 1)

stringify(object) == stringifyFrom(object, 1)

\* JSON.parse(content): the object the entries spell out.
parse(content) ==
    [key \in {content[i][1] : i \in DOMAIN content} |->
        content[CHOOSE i \in DOMAIN content : content[i][1] = key][2]]

\* As save, writing the file before the timestamp is refreshed.
save_StaleFile(session, now) ==
    [session |-> [session EXCEPT !["lastUpdatedAt"] = now],
     content |-> stringify(session)]

\* SessionManager.save: refreshes lastUpdatedAt on the caller's object, then
\* writes the object as JSON.
save(session, now) ==
    [session |-> [session EXCEPT !["lastUpdatedAt"] = now],
     content |-> stringify([session EXCEPT !["lastUpdatedAt"] = now])]

Thrown == [threw |-> TRUE]

\* `!data.version || data.version === 0`
versionAbsentOrZero(data) == ~has(data, "version") \/ data["version"] = 0

\* `data.key || fallback`, for the keys whose values are never falsy when
\* present.
orElse(data, key, fallback) == IF has(data, key) THEN data[key] ELSE fallback

\* SessionManager.migrate.  The v0 branch copies stateGraph as it is, so that
\* the key stays undefined when the payload lacks it.
migrate(data, now, generatedId) ==
    IF versionAbsentOrZero(data)
    THEN [threw |-> FALSE,
          session |->
            [key \in SeqToSet(SessionKeys) \
                        (IF has(data, "stateGraph") THEN {} ELSE {"stateGraph"}) |->
                CASE key = "version" -> CURRENT_VERSION
                  [] key = "id" ->
                        IF has(data, "id") /\ data["id"] # ""
                        THEN data["id"] ELSE generatedId
                  [] key = "appUrl" -> orElse(data, "appUrl", "")
                  [] key = "createdAt" -> orElse(data, "createdAt", now)
                  [] key = "lastUpdatedAt" -> now
                  [] key = "currentStateId" -> orElse(data, "currentStateId", NoState)
                  [] key = "entryStateId" -> orElse(data, "entryStateId", NoState)
                  [] key = "stateGraph" -> data["stateGraph"]
                  [] key = "skippedActions" -> orElse(data, "skippedActions", {})
                  [] key = "explorationHistory" ->
                        orElse(data, "explorationHistory", <<>>)]]
    ELSE IF data["version"] > CURRENT_VERSION
    THEN Thrown
    ELSE [threw |-> FALSE, session |-> data]

\* SessionManager.load of an existing file.
load(content, now, generatedId) ==
    IF ~has(parse(content), "version") \/ parse(content)["version"] # CURRENT_VERSION
    THEN migrate(parse(content), now, generatedId)
    ELSE [threw |-> FALSE, session |-> parse(content)]

-----------------------------------------------------------------------------
(* The state after construction *)

\* The handler invocations that can be in flight together. Which of them takes
\* the next client message does not matter: the first idle one does.
Tasks == {1, 2}

NoCall == [op |-> "none"]
NoSession == [present |-> FALSE]
NoFile == [present |-> FALSE]
Idle == [pc |-> "idle"]
\* The sockets that clients may connect with, and the caller of an operation
\* that no client asked for.
Sockets == {1, 2}
NoSocket == 0
\* A socket that is not connected: not among the server's clients.  Of a
\* connected socket the server knows whether it is open, and the model notes
\* the connection_init messages sent to it and whether a broadcast reached it
\* before the first of them.
NoConnection == [registered |-> FALSE, open |-> FALSE, inits |-> 0, early |-> FALSE]
\* The configuration before an Explorer is constructed.
NoConfig == [maxStates |-> 0, maxDepth |-> 0]

Init ==
    /\ page = NoPage
    /\ smStates = <<>>
    /\ stateCounter = 0
    /\ exploredActions = [id \in {} |-> {}]
    /\ gStates = <<>>
    /\ gTransitions = <<>>
    /\ gEntry = NoState
    /\ currentStateId = NoState
    /\ entryStateId = NoState
    /\ pathFromRoot = <<>>
    /\ skippedActions = {}
    /\ explorationHistory = <<>>
    /\ executionLock = FALSE
    /\ tasks = [t \in Tasks |-> Idle]
    /\ captureLog = {}
    /\ clock = 0
    /\ memSession = NoSession
    /\ file = NoFile
    /\ lastCall = NoCall
    /\ config = NoConfig
    /\ explorationQueue = <<>>
    /\ engine = [pc |-> "new", missed |-> FALSE]
    /\ sockets = [w \in Sockets |-> NoConnection]

-----------------------------------------------------------------------------
(* InteractiveExplorer and the handlers of InteractiveServer *)

MaxHistory == 2

\* What page.goto(config.url) can show: the entry URL, whose content may or may
\* not be what it was when the entry state was captured.
ResetPages == {pg \in BrowserPages : pg.url = [path |-> "/", query |-> ""]}

NotFound == [type |-> "none", elementSelector |-> "none", value |-> Undefined]
NoTransition == [id |-> 0]

unitVars == <<captureLog, sessionVars, lastCall, engineVars, serverVars>>

isActionSkipped(stateId, actionKey) == <<stateId, actionKey>> \in skippedActions

explorerGetCurrentState == getState(smStates, currentStateId)

\* getAvailableActions: the id and the action of every available action of the
\* current state, in the order of its elements.
getAvailableActions ==
    LET currentState == explorerGetCurrentState
    IN  IF currentState.id = NoState THEN <<>>
        ELSE [i \in 1..Len(currentState.elements) |->
                 [id |-> <<currentState.id, getActionKey(currentState.elements[i])>>,
                  action |-> currentState.elements[i]]]

\* As findAction, finding no action that is marked as skipped.
findAction_Unskipped(availableActions, actionId) ==
    LET hits == {i \in 1..Len(availableActions) :
                    /\ availableActions[i].id = actionId
                    /\ ~isActionSkipped(actionId[1], actionId[2])}
    IN  IF hits = {} THEN NotFound ELSE availableActions[SetMin(hits)].action

\* availableActions.find(a => a.id === actionId)
findAction(availableActions, actionId) ==
    LET hits == {i \in 1..Len(availableActions) : availableActions[i].id = actionId}
    IN  IF hits = {} THEN NotFound ELSE availableActions[SetMin(hits)].action

\* captureCurrentState: StateManager.captureState, then StateGraph.addState.
captureCurrentState(pg) ==
    captureState(smStates, stateCounter, exploredActions, pg, clock)

\* As explorerFindPathsTo, taking the target to be one step from the entry
\* state whether or not a transition was recorded.
explorerFindPathsTo_Direct(targetStateId) == <<(<<entryStateId, targetStateId>>)>>

\* InteractiveExplorer.findPathsTo(target), with its maxPaths of 1.
explorerFindPathsTo(targetStateId) ==
    findPathsTo(gTransitions, entryStateId, targetStateId, 1)

\* As lockHeld, never seeing the lock.
lockHeld_Never == FALSE

\* The test `if (this.executionLock)` that opens executeAction and jumpToState.
lockHeld == executionLock

\* As lockAfterReject, with the test inside the try block, whose finally
\* releases the lock.
lockAfterReject_Released == FALSE

\* The lock after a call was rejected: the throw is outside the try block.
lockAfterReject == executionLock

\* As lockAfterFinally, with no finally block.
lockAfterFinally_Held == TRUE

\* The lock when an operation that acquired it returns or throws.
lockAfterFinally == FALSE

\* As isEntryTarget, without the shortcut for the entry state.
isEntryTarget_Never(targetStateId) == FALSE

\* jumpToState's test for the entry state.
isEntryTarget(targetStateId) == targetStateId = entryStateId

\* A handler whose call into the explorer has returned or thrown, about to send.
Replying(ws, op, type, code, message, executed) ==
    [pc |-> "reply", ws |-> ws, op |-> op, type |-> type, code |-> code,
     message |-> message, executed |-> executed]

\* The number of (state, action) pairs marked explored.
exploredCount ==
    Cardinality({<<id, k>> \in (DOMAIN exploredActions) \X {getActionKey(a) : a \in Actions} :
                    k \in exploredActions[id]})

\* As initIsPending, were sendConnectionInit to wait for the browser before it
\* sends.
initIsPending_Ignored(ws) == FALSE

\* handleConnection has added the socket to the clients and sendConnectionInit
\* is suspended at its await of getAvailableActions, which reads no page and
\* resumes in the microtasks of the same event.
initIsPending(ws) == sockets[ws].registered /\ sockets[ws].inits = 0

\* A handler resumes, and sends, in the microtasks that follow the return of its
\* call into the explorer: before the next browser or client event is handled.
noReplyPending ==
    /\ \A u \in Tasks : tasks[u].pc # "reply"
    /\ \A w \in Sockets : ~initIsPending(w)

\* The sender of a message is a connected client, whose socket is open; the
\* operations of the explorer can also be called directly.
canSend(ws) ==
    IF ws = NoSocket THEN TRUE ELSE sockets[ws].registered /\ sockets[ws].open

\* The invocation t takes the next client message.
takesMessage(t) ==
    /\ page # NoPage
    /\ noReplyPending
    /\ tasks[t].pc = "idle"
    /\ \A u \in Tasks : u < t => tasks[u].pc # "idle"

\* As ExplorerInit, for a controller that may be initialised again.
ExplorerInit_Again ==
    /\ \E pg \in ResetPages :
        LET r == captureCurrentState(pg)
        IN  /\ page' = pg
            /\ smStates' = r.states
            /\ stateCounter' = r.counter
            /\ exploredActions' = r.explored
            /\ gStates' = addState(gStates, r.state.id)
            /\ gEntry' = r.state.id
            /\ entryStateId' = r.state.id
            /\ currentStateId' = r.state.id
            /\ pathFromRoot' = <<r.state.id>>
    /\ UNCHANGED <<gTransitions, skippedActions, explorationHistory,
                   executionLock, tasks, unitVars>>

\* InteractiveServer.start: InteractiveExplorer.init navigates to the entry URL
\* and captures the entry state, before any client can connect.
ExplorerInit ==
    /\ page = NoPage
    /\ \E pg \in ResetPages :
        LET r == captureCurrentState(pg)
        IN  /\ page' = pg
            /\ smStates' = r.states
            /\ stateCounter' = r.counter
            /\ exploredActions' = r.explored
            /\ gStates' = addState(gStates, r.state.id)
            /\ gEntry' = r.state.id
            /\ entryStateId' = r.state.id
            /\ currentStateId' = r.state.id
            /\ pathFromRoot' = <<r.state.id>>
    /\ UNCHANGED <<gTransitions, skippedActions, explorationHistory,
                   executionLock, tasks, unitVars>>

\* handleExecuteAction, up to the first await of executeAction: the call is
\* rejected if the lock is held; otherwise it takes the lock and resolves the
\* action id among the available actions of the current state.
ExecuteActionWithin(t, ws, actionId, maxHistory) ==
    /\ takesMessage(t)
    /\ canSend(ws)
    /\ LET action == findAction(getAvailableActions, actionId)
       IN  /\ \/ lockHeld
              \/ /\ Len(explorationHistory) < maxHistory
                 /\ \/ action = NotFound
                    \/ isActionExplored(exploredActions, currentStateId, action)
                    \/ exploredCount < maxHistory
           /\ IF lockHeld
              THEN /\ executionLock' = lockAfterReject
                   /\ tasks' = [tasks EXCEPT ![t] =
                         Replying(ws, "execute_action", "error",
                                  "EXECUTE_ERROR", "Action already in progress", 0)]
              ELSE /\ executionLock' = TRUE
                   /\ tasks' = [tasks EXCEPT ![t] =
                         [pc |-> "resolved", ws |-> ws, op |-> "execute_action",
                          previousStateId |-> currentStateId,
                          action |-> action, executed |-> 0]]
    /\ UNCHANGED <<browserVars, managerVars, graphVars, currentStateId,
                   entryStateId, pathFromRoot, skippedActions, explorationHistory,
                   unitVars>>

ExecuteActionStart(t, ws, actionId) ==
    ExecuteActionWithin(t, ws, actionId, MaxHistory)

\* The result of executeAction, which handleExecuteAction sends as an
\* action_result.
ActionResult(t, success, newStateId, isNewState, message) ==
    Replying(tasks[t].ws, "execute_action", "action_result", "none", message,
             tasks[t].executed)
    @@ [success |-> success, previousStateId |-> tasks[t].previousStateId,
        newStateId |-> newStateId, isNewState |-> isNewState]

\* As ExecuteActionFails, reporting the failure as a success.
ExecuteActionFails_Success(t, message) ==
    /\ executionLock' = lockAfterFinally
    /\ tasks' = [tasks EXCEPT ![t] =
          ActionResult(t, TRUE, tasks[t].previousStateId, FALSE, message)]

\* executeAction returning its failure result.
ExecuteActionFails(t, message) ==
    /\ executionLock' = lockAfterFinally
    /\ tasks' = [tasks EXCEPT ![t] =
          ActionResult(t, FALSE, tasks[t].previousStateId, FALSE, message)]

\* executeAction after getAvailableActions: an unknown action id fails the
\* call; otherwise the action is marked explored and its execution starts.
ExecuteActionResolved(t) ==
    /\ noReplyPending
    /\ tasks[t].pc = "resolved"
    /\ IF tasks[t].action = NotFound
       THEN /\ ExecuteActionFails(t, "Action not found")
            /\ UNCHANGED exploredActions
       ELSE /\ exploredActions' =
                  markActionExplored(exploredActions, currentStateId, tasks[t].action)
            /\ tasks' = [tasks EXCEPT ![t].pc = "internal"]
            /\ UNCHANGED executionLock
    /\ UNCHANGED <<browserVars, smStates, stateCounter, graphVars, currentStateId,
                   entryStateId, pathFromRoot, skippedActions, explorationHistory,
                   unitVars>>

\* executeActionInternal: the element is invisible or the interaction throws
\* (false), or the interaction is done and the browser shows some page.
ExecuteActionInternal(t) ==
    /\ noReplyPending
    /\ tasks[t].pc = "internal"
    /\ \/ /\ ExecuteActionFails(t, "Action execution failed")
          /\ UNCHANGED page
       \/ /\ page' \in BrowserPages
          /\ tasks' = [tasks EXCEPT ![t].pc = "capture", ![t].executed = @ + 1]
          /\ UNCHANGED executionLock
    /\ UNCHANGED <<managerVars, graphVars, currentStateId, entryStateId,
                   pathFromRoot, skippedActions, explorationHistory, unitVars>>

\* As pathAfterAction, pushing the state whether or not it is another one.
pathAfterAction_Always(path, previousStateId, newStateId) == Append(path, newStateId)

\* `if (newState.id !== previousStateId) this.pathFromRoot.push(newState.id)`
pathAfterAction(path, previousStateId, newStateId) ==
    IF newStateId # previousStateId THEN Append(path, newStateId) ELSE path

\* executeAction from captureCurrentState to its return.
ExecuteActionCapture(t) ==
    /\ noReplyPending
    /\ tasks[t].pc = "capture"
    /\ LET r == captureCurrentState(page)
           newState == r.state
           previousStateId == tasks[t].previousStateId
           isNewState == /\ newState.id # previousStateId
                         /\ ~\E i \in 1..Len(r.states) :
                                /\ r.states[i].id = newState.id
                                /\ r.states[i].timestamp < newState.timestamp
           transition == [id |-> Len(gTransitions) + 1,
                          fromStateId |-> previousStateId,
                          toStateId |-> newState.id,
                          action |-> tasks[t].action]
       IN  /\ smStates' = r.states
           /\ stateCounter' = r.counter
           /\ exploredActions' = r.explored
           /\ gStates' = addState(gStates, newState.id)
           /\ gTransitions' = addTransition(gTransitions, transition)
           /\ explorationHistory' = Append(explorationHistory,
                  [fromStateId |-> previousStateId, toStateId |-> newState.id,
                   action |-> tasks[t].action])
           /\ currentStateId' = newState.id
           /\ pathFromRoot' = pathAfterAction(pathFromRoot, previousStateId,
                                               newState.id)
           /\ tasks' = [tasks EXCEPT ![t] =
                 ActionResult(t, TRUE, newState.id, isNewState, "none")]
    /\ executionLock' = lockAfterFinally
    /\ UNCHANGED <<browserVars, gEntry, entryStateId, skippedActions, unitVars>>

\* A jumpToState or goToRoot that throws: the handler will send an error.
JumpThrows(t, ws, op, message, executed) ==
    tasks' = [tasks EXCEPT ![t] =
        Replying(ws, op, "error",
                 IF op = "go_to_root" THEN "ROOT_ERROR" ELSE "JUMP_ERROR",
                 message, executed)]

\* handleJumpToState and handleGoToRoot, up to the first await of jumpToState:
\* the call is rejected if the lock is held or the target is no state of the
\* graph; otherwise it takes the lock, and throws if no path to the target is
\* found.
JumpStart(t, ws, op, targetStateId) ==
    /\ takesMessage(t)
    /\ canSend(ws)
    /\ IF lockHeld
       THEN /\ executionLock' = lockAfterReject
            /\ JumpThrows(t, ws, op, "Action in progress", 0)
       ELSE IF targetStateId \notin SeqToSet(gStates)
       THEN /\ JumpThrows(t, ws, op, "Unknown state", 0)
            /\ UNCHANGED executionLock
       ELSE IF isEntryTarget(targetStateId)
       THEN /\ executionLock' = TRUE
            /\ tasks' = [tasks EXCEPT ![t] =
                  [pc |-> "reload", ws |-> ws, op |-> op, target |-> targetStateId,
                   executed |-> 0]]
       ELSE LET paths == explorerFindPathsTo(targetStateId)
            IN  IF Len(paths) = 0
                THEN /\ executionLock' = lockAfterFinally
                     /\ JumpThrows(t, ws, op, "No path found", 0)
                ELSE /\ executionLock' = TRUE
                     /\ tasks' = [tasks EXCEPT ![t] =
                           [pc |-> "reset", ws |-> ws, op |-> op,
                            target |-> targetStateId,
                            shortestPath |-> paths[1], i |-> 0, executed |-> 0]]
    /\ UNCHANGED <<browserVars, managerVars, graphVars, currentStateId,
                   entryStateId, pathFromRoot, skippedActions, explorationHistory,
                   unitVars>>

HandleJumpToState(t, ws, targetStateId) ==
    JumpStart(t, ws, "jump_to_state", targetStateId)

\* goToRoot is jumpToState(entryStateId).
HandleGoToRoot(t, ws) == JumpStart(t, ws, "go_to_root", entryStateId)

\* jumpToState to the entry state: the reload, which may throw, and the return.
JumpReload(t) ==
    /\ noReplyPending
    /\ tasks[t].pc = "reload"
    /\ executionLock' = lockAfterFinally
    /\ \/ /\ page' \in ResetPages
          /\ currentStateId' = entryStateId
          /\ pathFromRoot' = <<entryStateId>>
          /\ tasks' = [tasks EXCEPT ![t] =
                Replying(tasks[t].ws, tasks[t].op, "state_update", "none",
                         "none", tasks[t].executed)]
       \/ /\ JumpThrows(t, tasks[t].ws, tasks[t].op, "Navigation failed",
                        tasks[t].executed)
          /\ UNCHANGED <<page, currentStateId, pathFromRoot>>
    /\ UNCHANGED <<managerVars, graphVars, entryStateId, skippedActions,
                   explorationHistory, unitVars>>

\* jumpToState to another state: the reset to the entry URL, which may throw.
JumpReset(t) ==
    /\ noReplyPending
    /\ tasks[t].pc = "reset"
    /\ \/ /\ page' \in ResetPages
          /\ tasks' = [tasks EXCEPT ![t].pc = "replay"]
          /\ UNCHANGED executionLock
       \/ /\ executionLock' = lockAfterFinally
          /\ JumpThrows(t, tasks[t].ws, tasks[t].op, "Navigation failed",
                        tasks[t].executed)
          /\ UNCHANGED page
    /\ UNCHANGED <<managerVars, graphVars, currentStateId, entryStateId,
                   pathFromRoot, skippedActions, explorationHistory, unitVars>>

\* transitions.find(t => t.toStateId === toStateId) among those from fromStateId
findTransition(fromStateId, toStateId) ==
    LET outgoing == getTransitionsFrom(gTransitions, fromStateId)
        hits == {k \in 1..Len(outgoing) : outgoing[k].toStateId = toStateId}
    IN  IF hits = {} THEN NoTransition ELSE outgoing[SetMin(hits)]

\* One round of the replay loop: the recorded action of the next edge of the
\* path is executed; whether it succeeded is not looked at.
JumpReplay(t) ==
    /\ noReplyPending
    /\ tasks[t].pc = "replay"
    /\ tasks[t].i < Len(tasks[t].shortestPath) - 1
    /\ LET fromStateId == tasks[t].shortestPath[tasks[t].i + 1]
           toStateId == tasks[t].shortestPath[tasks[t].i + 2]
           transition == findTransition(fromStateId, toStateId)
       IN  IF transition.id # NoTransition.id
           THEN \/ /\ UNCHANGED page
                   /\ tasks' = [tasks EXCEPT ![t].i = @ + 1]
                \/ /\ page' \in BrowserPages
                   /\ tasks' = [tasks EXCEPT ![t].i = @ + 1, ![t].executed = @ + 1]
           ELSE /\ UNCHANGED page
                /\ tasks' = [tasks EXCEPT ![t].i = @ + 1]
    /\ UNCHANGED <<managerVars, graphVars, explorerVars, unitVars>>

\* jumpToState after the replay loop: the state reached is captured and becomes
\* the current state, whatever it is.
JumpCapture(t) ==
    /\ noReplyPending
    /\ tasks[t].pc = "replay"
    /\ ~(tasks[t].i < Len(tasks[t].shortestPath) - 1)
    /\ LET r == captureCurrentState(page)
       IN  /\ smStates' = r.states
           /\ stateCounter' = r.counter
           /\ exploredActions' = r.explored
           /\ gStates' = addState(gStates, r.state.id)
           /\ currentStateId' = r.state.id
    /\ pathFromRoot' = tasks[t].shortestPath
    /\ executionLock' = lockAfterFinally
    /\ tasks' = [tasks EXCEPT ![t] =
          Replying(tasks[t].ws, tasks[t].op, "state_update", "none", "none",
                   tasks[t].executed)]
    /\ UNCHANGED <<browserVars, gTransitions, gEntry, entryStateId,
                   skippedActions, explorationHistory, unitVars>>

ToSender(type) == [to |-> "sender", type |-> type]
ToAll(type) == [to |-> "all", type |-> type]

\* The messages that end a handler, in the order they are sent.  A successful
\* executeAction emits stateChange and, for a new state, graphUpdate, whose
\* listeners broadcast; handleExecuteAction then sends the result and
\* broadcasts again.  The jump handlers broadcast a state_update, the skip
\* handlers send one to their client, and every error goes to the client alone.
sends(reply) ==
    IF reply.type = "error" THEN <<ToSender("error")>>
    ELSE IF reply.type = "action_result"
    THEN IF reply.success
         THEN (IF reply.isNewState THEN <<ToAll("graph_update")>> ELSE <<>>)
              \o <<ToSender("action_result")>>
              \o (IF reply.isNewState THEN <<ToAll("graph_update")>> ELSE <<>>)
              \o <<ToAll("state_update"), ToAll("state_update")>>
         ELSE <<ToSender("action_result"), ToAll("state_update")>>
    ELSE IF reply.op \in {"skip_action", "unskip_action"}
    THEN <<ToSender("state_update")>>
    ELSE <<ToAll("state_update")>>

\* send(ws, ...) reaches the socket if it is open; broadcast(...) reaches the
\* clients whose socket is open.
recipients(message, ws) ==
    IF message.to = "sender"
    THEN {w \in Sockets : w = ws /\ sockets[w].open}
    ELSE {w \in Sockets : sockets[w].registered /\ sockets[w].open}

\* The sockets the messages of the reply reach.
reached(reply) ==
    UNION {recipients(sends(reply)[i], reply.ws) : i \in 1..Len(sends(reply))}

\* The handler sends its messages and ends.
HandlerReply(t) ==
    /\ tasks[t].pc = "reply"
    /\ tasks' = [tasks EXCEPT ![t] = Idle]
    /\ sockets' = [w \in Sockets |->
          IF w \in reached(tasks[t]) /\ sockets[w].inits = 0
          THEN [sockets[w] EXCEPT !.early = TRUE]
          ELSE sockets[w]]
    /\ UNCHANGED <<browserVars, managerVars, graphVars, explorerVars, captureLog,
                   sessionVars, lastCall, engineVars>>

\* The action ids and state ids a client can send.
ClientStateIds == 1..(stateCounter + 1)

ClientActionIds == {<<id, getActionKey(a)>> : id \in ClientStateIds, a \in Actions}

Next ==
    \/ ExplorerInit
    \/ \E t \in Tasks, actionId \in ClientActionIds :
          ExecuteActionStart(t, NoSocket, actionId)
    \/ \E t \in Tasks : ExecuteActionResolved(t)
    \/ \E t \in Tasks : ExecuteActionInternal(t)
    \/ \E t \in Tasks : ExecuteActionCapture(t)
    \/ \E t \in Tasks, id \in ClientStateIds : HandleJumpToState(t, NoSocket, id)
    \/ \E t \in Tasks : HandleGoToRoot(t, NoSocket)
    \/ \E t \in Tasks : JumpReload(t)
    \/ \E t \in Tasks : JumpReset(t)
    \/ \E t \in Tasks : JumpReplay(t)
    \/ \E t \in Tasks : JumpCapture(t)
    \/ \E t \in Tasks : HandlerReply(t)

Spec == Init /\ [][Next]_vars

-----------------------------------------------------------------------------
(* Claims about the interactive controller *)

\* The task is between acquiring and releasing the mutation lock.
executing(t) ==
    tasks[t].pc \in {"resolved", "internal", "capture", "reload", "reset", "replay"}

\* The task has just been turned away because the lock was held.
rejected(t) ==
    /\ tasks[t].pc = "reply"
    /\ tasks[t].type = "error"
    /\ tasks[t].message \in {"Action already in progress", "Action in progress"}

\* What the operations of the controller work on, the lock and the tasks aside.
controllerState == <<page, smStates, stateCounter, exploredActions, gStates,
                     gTransitions, gEntry, currentStateId, entryStateId,
                     pathFromRoot, skippedActions, explorationHistory>>

\* C1: at most one executeAction, jumpToState or goToRoot is between acquiring
\* and releasing the mutation lock at any instant.
C1_OneOperationAtATime == Cardinality({t \in Tasks : executing(t)}) <= 1

\* One operation is executing and a concurrent call has been turned away.
C1_Witness == \E t, u \in Tasks : executing(t) /\ rejected(u)

\* The handler invocation t receives an execute_action, jump_to_state or
\* go_to_root message.
receivesCommand(t) ==
    \/ \E actionId \in ClientActionIds : ExecuteActionStart(t, NoSocket, actionId)
    \/ \E id \in ClientStateIds : HandleJumpToState(t, NoSocket, id)
    \/ HandleGoToRoot(t, NoSocket)

\* C2: a call made while the lock is held is rejected at once, with an error
\* for its caller and no effect: the controller's state is unchanged, the lock
\* stays held, no other task is touched, and the rejected task only sends its
\* error and ends.
C2_RejectedWithoutEffect ==
    [][\A t \in Tasks :
          /\ (executionLock /\ receivesCommand(t)) =>
                /\ rejected(t)'
                /\ tasks'[t].code \in {"EXECUTE_ERROR", "JUMP_ERROR", "ROOT_ERROR"}
                /\ executionLock'
                /\ UNCHANGED controllerState
                /\ \A u \in Tasks \ {t} : tasks'[u] = tasks[u]
          /\ rejected(t) => (tasks'[t] = tasks[t] \/ tasks'[t] = Idle)]_vars

\* An executeAction has been rejected while a jump was replaying its path.
C2_Witness ==
    \E t, u \in Tasks :
        /\ rejected(u)
        /\ tasks[u].op = "execute_action"
        /\ tasks[t].pc = "replay"

\* The task runs a jumpToState (or goToRoot) whose target is the entry state.
jumpsToEntry(task) ==
    /\ task.pc \in {"reload", "reset", "replay"}
    /\ task.target = entryStateId

\* C6: a jumpToState to the entry state, or a goToRoot, executes no recorded
\* action and changes neither graph, history, skip set nor the known states;
\* when it returns, currentStateId is the entry state and pathFromRoot is
\* [entryStateId].
C6_JumpToEntryIsReset ==
    [][\A t \in Tasks :
          (tasks'[t] # tasks[t] /\ (jumpsToEntry(tasks[t]) \/ jumpsToEntry(tasks'[t]))) =>
             /\ UNCHANGED <<managerVars, graphVars, explorationHistory,
                            skippedActions, entryStateId>>
             /\ tasks'[t].executed = 0
             /\ page' # page => jumpsToEntry(tasks[t]) /\ page' \in ResetPages
             /\ (tasks'[t].pc = "reply" /\ tasks'[t].type = "state_update") =>
                   /\ currentStateId' = entryStateId
                   /\ pathFromRoot' = <<entryStateId>>]_vars

\* A goToRoot has returned, in a session that has recorded a transition to
\* another state and was not at the entry state.
C6_Witness ==
    \E t \in Tasks :
        /\ tasks[t].pc = "reply"
        /\ tasks[t].op = "go_to_root"
        /\ tasks[t].type = "state_update"
        /\ Len(gStates) >= 2
        /\ Len(gTransitions) >= 1
        /\ page.domHash = "h2"

\* The states that the recorded transitions lead to from the entry state.
RECURSIVE reachableIn(_, _)
reachableIn(S, n) ==
    IF n = 0 THEN S
    ELSE reachableIn(S \cup {gTransitions[i].toStateId :
                                i \in {j \in 1..Len(gTransitions) :
                                          gTransitions[j].fromStateId \in S}},
                     n - 1)

reachableFromEntry == reachableIn({entryStateId}, Len(gTransitions))

\* C7: a jumpToState whose target is unknown to the graph, or has no recorded
\* path from the entry state, fails with an error and changes nothing: the
\* controller's state and the page are as before and the lock is free.
C7_UnreachableTargetFails ==
    [][\A t \in Tasks, id \in ClientStateIds :
          (/\ HandleJumpToState(t, NoSocket, id)
           /\ ~executionLock
           /\ id \notin SeqToSet(gStates) \cap reachableFromEntry) =>
             /\ tasks'[t].pc = "reply"
             /\ tasks'[t].type = "error"
             /\ tasks'[t].code = "JUMP_ERROR"
             /\ tasks'[t].message \in {"Unknown state", "No path found"}
             /\ UNCHANGED controllerState
             /\ ~executionLock']_vars

\* A jump to a state of the graph has failed for want of a path.
C7_Witness ==
    \E t \in Tasks :
        /\ tasks[t].pc = "reply"
        /\ tasks[t].message = "No path found"
        /\ ~executionLock

\* The operation in progress takes its next step.
OperationStep ==
    \E t \in Tasks :
        \/ ExecuteActionResolved(t)
        \/ ExecuteActionInternal(t)
        \/ ExecuteActionCapture(t)
        \/ JumpReload(t)
        \/ JumpReset(t)
        \/ JumpReplay(t)
        \/ JumpCapture(t)

\* A handler sends its messages and ends.
HandlerEnds == \E t \in Tasks : HandlerReply(t)

\* The interactive controller when every browser operation returns, with or
\* without an error. The event loop takes the completion of a browser
\* operation after finitely many client messages, each of which is answered
\* in the microtasks of its own event: an operation step that is enabled again
\* and again is taken, and a handler that was resumed runs to its end.
MaxFairHistory == 1

FairNext ==
    \/ ExplorerInit
    \/ \E t \in Tasks, actionId \in ClientActionIds :
          Len(explorationHistory) < MaxFairHistory
              /\ ExecuteActionStart(t, NoSocket, actionId)
    \/ \E t \in Tasks, id \in ClientStateIds : HandleJumpToState(t, NoSocket, id)
    \/ \E t \in Tasks : HandleGoToRoot(t, NoSocket)
    \/ OperationStep
    \/ HandlerEnds

FairSpec ==
    Init /\ [][FairNext]_vars /\ SF_vars(OperationStep) /\ WF_vars(HandlerEnds)

\* C22: the lock is held exactly while an executeAction or a jumpToState that
\* acquired it is in progress; whatever the outcome, the call that ends leaves
\* the lock free, and every call that acquired the lock ends.
C22_LockIsReleased ==
    /\ [](executionLock <=> \E t \in Tasks : executing(t))
    /\ [][\A t \in Tasks :
             (executing(t) /\ ~executing(t)') =>
                 /\ ~executionLock'
                 /\ tasks'[t].pc = "reply"]_vars
    /\ executionLock ~> ~executionLock

\* The outcomes after which the lock is found free: a success, an unknown
\* action, a failed execution and a failed navigation.
C22_Witness ==
    /\ ~executionLock
    /\ \E t \in Tasks :
          /\ tasks[t].pc = "reply"
          /\ tasks[t].message \in {"Action not found", "Action execution failed",
                                   "Navigation failed"}
    /\ Len(explorationHistory) >= 1

-----------------------------------------------------------------------------
(* StateGraph driven by arbitrary calls *)

MaxTransitions == 2

GraphIds == {1, 2, 3}

\* The entry state ids tried: unset, and one id (which may or may not have
\* been added as a state yet).
GraphEntries == {NoState, 1}

GraphTransitions ==
    [id : {Len(gTransitions) + 1}, fromStateId : GraphIds, toStateId : GraphIds,
     action : GraphActions]

otherThanGraph == <<browserVars, managerVars, explorerVars, tasks, captureLog,
                    sessionVars, engineVars, serverVars>>

GraphAddState(stateId) ==
    /\ gStates' = addState(gStates, stateId)
    /\ lastCall' = [op |-> "addState"]
    /\ UNCHANGED <<gTransitions, gEntry, otherThanGraph>>

GraphAddTransition(transition) ==
    /\ Len(addTransition(gTransitions, transition)) <= MaxTransitions
    /\ gTransitions' = addTransition(gTransitions, transition)
    /\ lastCall' = [op |-> "addTransition",
                    matched |-> \E i \in 1..Len(gTransitions) :
                                   sameTransition(gTransitions[i], transition)]
    /\ UNCHANGED <<gStates, gEntry, otherThanGraph>>

GraphSetEntryState(stateId) ==
    /\ gEntry' = stateId
    /\ lastCall' = [op |-> "setEntryState"]
    /\ UNCHANGED <<gStates, gTransitions, otherThanGraph>>

GraphNext ==
    \/ \E stateId \in GraphIds : GraphAddState(stateId)
    \/ \E transition \in GraphTransitions : GraphAddTransition(transition)
    \/ \E stateId \in GraphEntries : GraphSetEntryState(stateId)

GraphSpec == Init /\ [][GraphNext]_vars

-----------------------------------------------------------------------------
(* Claims about the state graph *)

fourFields(t) == <<t.fromStateId, t.toStateId, t.action.type, t.action.elementSelector>>

NoDuplicateTransitions ==
    \A i, j \in 1..Len(gTransitions) :
        i # j => fourFields(gTransitions[i]) # fourFields(gTransitions[j])

\* C3: no two stored transitions agree on (fromStateId, toStateId, action.type,
\* action.elementSelector), and an addTransition whose argument matches a stored
\* transition on these four fields leaves the transition list as it was.
C3_TransitionsDeduplicated ==
    /\ []NoDuplicateTransitions
    /\ [][\A transition \in GraphTransitions :
            (/\ GraphAddTransition(transition)
             /\ \E i \in 1..Len(gTransitions) :
                   fourFields(gTransitions[i]) = fourFields(transition))
            => gTransitions' = gTransitions]_vars

\* A matching transition was inserted again into a graph that holds several.
C3_Witness ==
    /\ lastCall.op = "addTransition"
    /\ lastCall.matched
    /\ Len(gTransitions) >= 2

isSimplePath(path) ==
    \A i, j \in 1..Len(path) : i # j => path[i] # path[j]

graphPaths == computePaths(gStates, gTransitions, gEntry)

\* C5: every path that path search returns visits no state id twice, and the
\* paths returned for the entry state are exactly the one path [entryStateId].
C5_PathsAreSimple ==
    \A id \in DOMAIN graphPaths :
        /\ \A k \in 1..Len(graphPaths[id]) : isSimplePath(graphPaths[id][k])
        /\ id = gEntry => graphPaths[id] = << <<gEntry>> >>

\* The entry state lies on a cycle or carries a self-loop, and a path to
\* another state is returned.
C5_Witness ==
    /\ gEntry \in SeqToSet(gStates)
    /\ \E i \in 1..Len(gTransitions) : gTransitions[i].toStateId = gEntry
    /\ \E id \in DOMAIN graphPaths : id # gEntry /\ Len(graphPaths[id]) >= 1

\* The paths that computePaths holds for a state; a key it does not hold reads
\* as no paths.
pathsOf(id) == IF id \in DOMAIN graphPaths THEN graphPaths[id] ELSE <<>>

\* C31: while the entry state id is unset or is not the id of a state of the
\* graph, computePaths returns (it does not fail) and gives no path for any
\* state of the graph.
C31_NoEntryNoPaths ==
    (gEntry = NoState \/ gEntry \notin SeqToSet(gStates)) =>
        \A id \in SeqToSet(gStates) : pathsOf(id) = <<>>

-----------------------------------------------------------------------------
(* Path search over graphs with parallel edges, cycles and self-loops *)

MaxPathTransitions == 4

SelectC == [type |-> "select", elementSelector |-> "#c", value |-> Undefined]
SubmitD == [type |-> "submit", elementSelector |-> "#d", value |-> Undefined]

\* The edges the graphs are made of: four parallel edges and a two-step route
\* with parallel edges to the same state, a way back, and self-loops.
PathEdges ==
    {<<1, 3, ClickA>>, <<1, 3, InputB>>, <<1, 3, SelectC>>, <<1, 3, SubmitD>>,
     <<1, 2, ClickA>>, <<2, 3, ClickA>>, <<2, 3, InputB>>, <<2, 1, ClickA>>,
     <<2, 2, InputB>>, <<1, 1, InputB>>, <<3, 2, ClickA>>}

PathTransitions ==
    {[id |-> Len(gTransitions) + 1, fromStateId |-> e[1], toStateId |-> e[2],
      action |-> e[3]] : e \in PathEdges}

\* addTransition, for at most the given number of transitions.
PathAddTransition(transition, maxTransitions) ==
    /\ gEntry # NoState
    /\ lastCall.op # "findPathsTo"
    /\ Len(addTransition(gTransitions, transition)) <= maxTransitions
    /\ gTransitions' = addTransition(gTransitions, transition)
    /\ UNCHANGED <<gStates, gEntry, lastCall, otherThanGraph>>

PathNext ==
    \/ \E stateId \in GraphIds : stateId = Len(gStates) + 1 /\ GraphAddState(stateId)
    \/ Len(gStates) = Cardinality(GraphIds) /\ gEntry = NoState /\ GraphSetEntryState(1)
    \/ \E transition \in PathTransitions :
          PathAddTransition(transition, MaxPathTransitions)

PathSpec == Init /\ [][PathNext]_vars

-----------------------------------------------------------------------------
(* Claims about path search *)

\* The states that recorded transitions reach from the entry state of the
\* graph.
RECURSIVE graphReachableIn(_, _)
graphReachableIn(S, n) ==
    IF n = 0 THEN S
    ELSE graphReachableIn(S \cup {gTransitions[i].toStateId :
                                     i \in {j \in 1..Len(gTransitions) :
                                               gTransitions[j].fromStateId \in S}},
                          n - 1)

graphReachable == graphReachableIn({gEntry}, Len(gTransitions))

\* Each consecutive pair of the path is joined by a recorded transition.
isJoined(path) ==
    \A i \in 1..(Len(path) - 1) :
        \E k \in 1..Len(gTransitions) :
            /\ gTransitions[k].fromStateId = path[i]
            /\ gTransitions[k].toStateId = path[i + 1]

C29_PathsAreDistinct ==
    \A id \in DOMAIN graphPaths :
        \A k, l \in 1..Len(graphPaths[id]) :
            k # l => graphPaths[id][k] # graphPaths[id][l]

-----------------------------------------------------------------------------
(* Path search, one iteration of its loop at a time *)

MaxSearchTransitions == 3

\* The values of maxPaths that path search is called with: the default of the
\* controller's findPathsTo and the default of the graph's.
SearchMaxPaths == {1, DefaultMaxPaths}

\* The condition of the loop of findPathsTo.
loopGoesOn(search) ==
    Len(search.queue) > 0 /\ Len(search.allPaths) < search.maxPaths

\* As findPathsIteration, with an item whose path key was seen before left at
\* the head of the queue.
findPathsIteration_KeepSeen(transitions, search) ==
    LET path == Head(search.queue)
        stateId == Last(path)
    IN  IF stateId = search.target
        THEN [search EXCEPT !.queue = Tail(@), !.allPaths = Append(@, path)]
        ELSE IF path \in search.visited
        THEN search
        ELSE [search EXCEPT
                 !.queue = Tail(@) \o pushSuccessors(
                               getTransitionsFrom(transitions, stateId),
                               path, search.target),
                 !.visited = @ \cup {path}]

\* One iteration of the loop of findPathsTo: the head of the queue is shifted
\* off, collected if it ends at the target, dropped if its path key was seen,
\* and otherwise marked as seen and replaced by its successors.
findPathsIteration(transitions, search) ==
    LET path == Head(search.queue)
        stateId == Last(path)
    IN  IF stateId = search.target
        THEN [search EXCEPT !.queue = Tail(@), !.allPaths = Append(@, path)]
        ELSE IF path \in search.visited
        THEN [search EXCEPT !.queue = Tail(@)]
        ELSE [search EXCEPT
                 !.queue = Tail(@) \o pushSuccessors(
                               getTransitionsFrom(transitions, stateId),
                               path, search.target),
                 !.visited = @ \cup {path}]

searching == lastCall.op = "findPathsTo"

\* findPathsTo is entered: the entry state is answered at once, any other
\* target starts the loop with the entry state queued.
SearchStart(targetStateId, maxPaths) ==
    /\ gEntry # NoState
    /\ ~searching
    /\ lastCall' =
          IF targetStateId = gEntry
          THEN [op |-> "findPathsTo", pc |-> "returned", target |-> targetStateId,
                maxPaths |-> maxPaths, queue |-> <<>>,
                allPaths |-> << <<gEntry>> >>, visited |-> {}]
          ELSE [op |-> "findPathsTo", pc |-> "loop", target |-> targetStateId,
                maxPaths |-> maxPaths, queue |-> << <<gEntry>> >>,
                allPaths |-> <<>>, visited |-> {}]
    /\ UNCHANGED <<graphVars, otherThanGraph>>

SearchIteration ==
    /\ searching
    /\ lastCall.pc = "loop"
    /\ loopGoesOn(lastCall)
    /\ lastCall' = findPathsIteration(gTransitions, lastCall)
    /\ UNCHANGED <<graphVars, otherThanGraph>>

SearchReturn ==
    /\ searching
    /\ lastCall.pc = "loop"
    /\ ~loopGoesOn(lastCall)
    /\ lastCall' = [lastCall EXCEPT !.pc = "returned"]
    /\ UNCHANGED <<graphVars, otherThanGraph>>

SearchRuns == SearchIteration \/ SearchReturn

SearchNext ==
    \/ \E stateId \in GraphIds : stateId = Len(gStates) + 1 /\ GraphAddState(stateId)
    \/ Len(gStates) = Cardinality(GraphIds) /\ gEntry = NoState /\ GraphSetEntryState(1)
    \/ \E transition \in PathTransitions :
          PathAddTransition(transition, MaxSearchTransitions)
    \/ \E targetStateId \in GraphIds, maxPaths \in SearchMaxPaths :
          SearchStart(targetStateId, maxPaths)
    \/ SearchRuns

\* The loop is synchronous code: once entered it runs on until it returns.
SearchSpec == Init /\ [][SearchNext]_vars /\ WF_vars(SearchRuns)

returned == searching /\ lastCall.pc = "returned"

\* C30: on every graph, with cycles, self-loops, parallel transitions and
\* targets that no transition reaches, a path search that was entered returns,
\* and it returns what findPathsTo gives for the graph, the target and the cap.
C30_SearchTerminates ==
    /\ searching ~> returned
    /\ [](returned =>
            lastCall.allPaths = findPathsTo(gTransitions, gEntry, lastCall.target,
                                            lastCall.maxPaths))

\* A search for a state that nothing reaches has returned without a path, on a
\* graph with two parallel transitions from the entry state and a self-loop on
\* it, after it dropped a path it had seen.
C30_Witness ==
    /\ returned
    /\ lastCall.target = 2
    /\ lastCall.allPaths = <<>>
    /\ Cardinality(lastCall.visited) >= 2
    /\ \E i, j \in 1..Len(gTransitions) :
          /\ i # j
          /\ gTransitions[i].fromStateId = 1 /\ gTransitions[i].toStateId = 3
          /\ gTransitions[j].fromStateId = 1 /\ gTransitions[j].toStateId = 3
    /\ \E i \in 1..Len(gTransitions) :
          gTransitions[i].fromStateId = 1 /\ gTransitions[i].toStateId = 1

-----------------------------------------------------------------------------
(* StateManager driven by arbitrary captures *)

IdentityCapture(pg) ==
    LET r == captureState(smStates, stateCounter, exploredActions, pg, clock)
    IN  /\ smStates' = r.states
        /\ stateCounter' = r.counter
        /\ exploredActions' = r.explored
        /\ captureLog' = captureLog \cup {<<pg.url.path, pg.domHash, r.state>>}
        /\ lastCall' = [op |-> "captureState", page |-> pg, state |-> r.state]
        /\ UNCHANGED <<browserVars, graphVars, explorerVars, tasks, sessionVars,
                       engineVars, serverVars>>

IdentityNext == \E pg \in AllPages : IdentityCapture(pg)

IdentitySpec == Init /\ [][IdentityNext]_vars

\* C4: captures with the same (urlPath, fingerprint) returned the same state
\* (the object created by the first of them), captures with different keys
\* returned different ids, and there are as many states as distinct keys seen.
C4_StateIdentity ==
    /\ \A a, b \in captureLog :
          /\ (a[1] = b[1] /\ a[2] = b[2]) => a[3] = b[3]
          /\ (a[1] # b[1] \/ a[2] # b[2]) => a[3].id # b[3].id
    /\ \A a \in captureLog : a[3] \in SeqToSet(smStates)
    /\ Len(smStates) = Cardinality({<<a[1], a[2]>> : a \in captureLog})
    /\ Cardinality({smStates[i].id : i \in 1..Len(smStates)}) = Len(smStates)

\* The last capture saw a known key under another URL and got the state
\* created for the first one, and another key got another state.
C4_Witness ==
    /\ lastCall.op = "captureState"
    /\ lastCall.state.url # lastCall.page.url
    /\ Len(smStates) >= 2

-----------------------------------------------------------------------------
(* SessionManager driven by saves, loads and files written elsewhere *)

MaxClock == 3

otherThanSession == <<browserVars, managerVars, graphVars, explorerVars, tasks,
                      captureLog, engineVars, serverVars>>

EmptyGraph == [states |-> <<>>, transitions |-> <<>>, entryStateId |-> NoState]

SampleGraph ==
    [states |-> <<1, 2>>,
     transitions |-> <<[id |-> 1, fromStateId |-> 1, toStateId |-> 2,
                        action |-> ClickA]>>,
     entryStateId |-> 1]

SampleHistory == <<[fromStateId |-> 1, toStateId |-> 2, action |-> ClickA]>>

\* What toSession returns at time now: version 1, a time-stamped id, the start
\* time as createdAt, now as lastUpdatedAt, and the controller's position,
\* graph, skip sets and history.
toSession(now, current, graph, history) ==
    [key \in SeqToSet(SessionKeys) |->
        CASE key = "version" -> 1
          [] key = "id" -> "session_t"
          [] key = "appUrl" -> "http://app"
          [] key = "createdAt" -> 0
          [] key = "lastUpdatedAt" -> now
          [] key = "currentStateId" -> current
          [] key = "entryStateId" -> graph.entryStateId
          [] key = "stateGraph" -> graph
          [] key = "skippedActions" ->
                IF history = <<>> THEN {} ELSE {<<2, getActionKey(ClickA)>>}
          [] key = "explorationHistory" -> history]

\* The object without the given keys.
without(object, keys) == [key \in DOMAIN object \ keys |-> object[key]]

\* Session files that other tools or versions may have left: any version or
\* none, and any of the optional parts missing.
StoredVersions == {-1, 0, 1, 2}

StoredPayloads ==
    LET full == toSession(0, 2, SampleGraph, SampleHistory)
    IN  {without(IF v = 1 THEN full ELSE [full EXCEPT !["version"] = v], missing) :
            v \in StoredVersions,
            missing \in SUBSET {"version", "id", "stateGraph", "explorationHistory"}}

\* Time passes.
SessionTick ==
    /\ clock < MaxClock
    /\ clock' = clock + 1
    /\ UNCHANGED <<memSession, file, lastCall, otherThanSession>>

\* handleSaveSession, first half: explorer.toSession().
SessionToSession(current, graph, history) ==
    /\ memSession' = [present |-> TRUE,
                      object |-> toSession(clock, current, graph, history)]
    /\ lastCall' = [op |-> "toSession"]
    /\ UNCHANGED <<clock, file, otherThanSession>>

\* handleSaveSession, second half: SessionManager.save(session, file).
SessionSave ==
    /\ memSession.present
    /\ memSession' = [present |-> TRUE,
                      object |-> save(memSession.object, clock).session]
    /\ file' = [present |-> TRUE,
                content |-> save(memSession.object, clock).content]
    /\ lastCall' = [op |-> "save", session |-> memSession.object, now |-> clock]
    /\ UNCHANGED <<clock, otherThanSession>>

\* A session file arrives from elsewhere.
SessionFileWritten(payload) ==
    /\ file' = [present |-> TRUE, content |-> stringify(payload)]
    /\ lastCall' = [op |-> "written"]
    /\ UNCHANGED <<clock, memSession, otherThanSession>>

\* SessionManager.load(file); a missing file throws.
SessionLoad ==
    /\ lastCall' =
          IF file.present
          THEN [op |-> "load", after |-> lastCall.op, raw |-> parse(file.content),
                result |-> load(file.content, clock, "session_g")]
          ELSE [op |-> "load", after |-> lastCall.op, raw |-> <<>>,
                result |-> Thrown]
    /\ UNCHANGED <<clock, memSession, file, otherThanSession>>

SessionNext ==
    \/ SessionTick
    \/ \E current \in {1, 2}, graph \in {EmptyGraph, SampleGraph},
          history \in {<<>>, SampleHistory} :
          SessionToSession(current, graph, history)
    \/ SessionSave
    \/ \E payload \in StoredPayloads : SessionFileWritten(payload)
    \/ SessionLoad

SessionSpec == Init /\ [][SessionNext]_vars

-----------------------------------------------------------------------------
(* Claims about session persistence *)

\* The two objects define the same keys, with the same values except possibly
\* under the given keys.
sameExcept(a, b, keys) ==
    /\ DOMAIN a = DOMAIN b
    /\ \A key \in DOMAIN a \ keys : a[key] = b[key]

\* C8: save(s, f) followed by load(f) returns a session equal to s in every
\* field except lastUpdatedAt, which is the time of the save and not earlier
\* than the value s had.
C8_SaveLoadRoundTrip ==
    [][(lastCall.op = "save" /\ SessionLoad) =>
          /\ ~lastCall'.result.threw
          /\ sameExcept(lastCall'.result.session, lastCall.session,
                        {"lastUpdatedAt"})
          /\ DOMAIN lastCall.session = SeqToSet(SessionKeys)
          /\ lastCall'.result.session["lastUpdatedAt"] = lastCall.now
          /\ lastCall.now >= lastCall.session["lastUpdatedAt"]]_vars

\* A session with a graph and a history was saved some time after it was
\* made, and loaded back.
C8_Witness ==
    /\ lastCall.op = "load"
    /\ lastCall.after = "save"
    /\ ~lastCall.result.threw
    /\ lastCall.result.session["lastUpdatedAt"] > 0
    /\ lastCall.result.session["stateGraph"] = SampleGraph
    /\ memSession.present
    /\ memSession.object["explorationHistory"] = SampleHistory

\* C9: loading a payload whose version is absent or zero never throws and
\* returns a session of the current version with every required field
\* defined, the graph, skip map and history being empty where the payload
\* lacks them.
C9_MigrationFillsEveryField ==
    (lastCall.op = "load" /\ file.present /\ versionAbsentOrZero(lastCall.raw)) =>
        /\ ~lastCall.result.threw
        /\ lastCall.result.session["version"] = CURRENT_VERSION
        /\ DOMAIN lastCall.result.session = SeqToSet(SessionKeys)
        /\ ~has(lastCall.raw, "stateGraph") =>
              lastCall.result.session["stateGraph"] = EmptyGraph
        /\ ~has(lastCall.raw, "skippedActions") =>
              lastCall.result.session["skippedActions"] = {}
        /\ ~has(lastCall.raw, "explorationHistory") =>
              lastCall.result.session["explorationHistory"] = <<>>

\* C10: load throws when the stored version is greater than the supported
\* one, returns the stored payload unchanged when the two are equal, and
\* returns only sessions of the supported version.
C10_LoadChecksVersion ==
    (lastCall.op = "load" /\ file.present) =>
        /\ (has(lastCall.raw, "version") /\ lastCall.raw["version"] > CURRENT_VERSION) =>
              lastCall.result.threw
        /\ (has(lastCall.raw, "version") /\ lastCall.raw["version"] = CURRENT_VERSION) =>
              /\ ~lastCall.result.threw
              /\ sameExcept(lastCall.result.session, lastCall.raw, {})
        /\ ~lastCall.result.threw =>
              lastCall.result.session["version"] = CURRENT_VERSION

-----------------------------------------------------------------------------
(* Explorer: the autonomous breadth-first run *)

MaxConfig == 3

\* The values of maxStates and of maxDepth the runs are started with.
ConfigValues == 0..MaxConfig

otherThanEngine == <<explorerVars, tasks, captureLog, sessionVars, serverVars>>

\* As statesLimitReached, stopping one state late.
statesLimitReached_Late == Len(smStates) > config.maxStates

\* `stats.totalStates >= this.config.maxStates`
statesLimitReached == Len(smStates) >= config.maxStates

\* As depthReached, dropping one level late.
depthReached_Late(item) == Len(item.pathFromRoot) > config.maxDepth

\* `item.pathFromRoot.length >= this.config.maxDepth`
depthReached(item) == Len(item.pathFromRoot) >= config.maxDepth

\* As afterMiss, trying the failed action again.
afterMiss_Retry == "execute"

\* As afterMiss, letting the failure of an action end the run.
afterMiss_Abort == "aborted"

\* Where exploreAction leaves the run when the action failed or threw: it
\* returns, and the loop goes on.
afterMiss == "loop"

\* getUnexploredActions(stateId, actions)
getUnexploredActions(explored, stateId, actions) ==
    SelectSeq(actions, LAMBDA action : ~isActionExplored(explored, stateId, action))

\* As queueActionsForState, putting the new items at the front of the queue.
queueActionsForState_Front(queue, explored, state, path) ==
    LET unexploredActions == getUnexploredActions(explored, state.id, state.elements)
    IN  [i \in 1..Len(unexploredActions) |->
            [stateId |-> state.id, action |-> unexploredActions[i],
             pathFromRoot |-> Append(path, state.id)]] \o queue

\* As queueActionsForState, with the given path handed on as it is.
queueActionsForState_SamePath(queue, explored, state, path) ==
    LET unexploredActions == getUnexploredActions(explored, state.id, state.elements)
    IN  queue \o [i \in 1..Len(unexploredActions) |->
                     [stateId |-> state.id, action |-> unexploredActions[i],
                      pathFromRoot |-> path]]

\* queueActionsForState: the queue with an item for every unexplored action of
\* the state, each with the given path extended by the state.
queueActionsForState(queue, explored, state, path) ==
    LET unexploredActions == getUnexploredActions(explored, state.id, state.elements)
    IN  queue \o [i \in 1..Len(unexploredActions) |->
                     [stateId |-> state.id, action |-> unexploredActions[i],
                      pathFromRoot |-> Append(path, state.id)]]

\* new Explorer(config)
EngineConstruct(maxStates, maxDepth) ==
    /\ engine.pc = "new"
    /\ config' = [maxStates |-> maxStates, maxDepth |-> maxDepth]
    /\ engine' = [engine EXCEPT !.pc = "entry"]
    /\ UNCHANGED <<browserVars, managerVars, graphVars, explorationQueue, lastCall,
                   otherThanEngine>>

\* runExploration up to its loop: the entry page is loaded and captured, and
\* its actions are queued.  A failed navigation ends the run.
EngineEntry ==
    /\ engine.pc = "entry"
    /\ \/ \E pg \in ResetPages :
             LET r == captureState(smStates, stateCounter, exploredActions, pg, clock)
             IN  /\ page' = pg
                 /\ smStates' = r.states
                 /\ stateCounter' = r.counter
                 /\ exploredActions' = r.explored
                 /\ gStates' = addState(gStates, r.state.id)
                 /\ gEntry' = r.state.id
                 /\ explorationQueue' =
                       queueActionsForState(explorationQueue, r.explored, r.state, <<>>)
                 /\ engine' = [engine EXCEPT !.pc = "loop"]
                 /\ UNCHANGED gTransitions
       \/ /\ engine' = [engine EXCEPT !.pc = "aborted"]
          /\ UNCHANGED <<browserVars, managerVars, graphVars, explorationQueue>>
    /\ UNCHANGED <<config, lastCall, otherThanEngine>>

\* One turn of the loop: it ends on an empty queue or at the state limit;
\* otherwise it takes the head of the queue, and drops it if it is too deep.
EngineLoop ==
    /\ engine.pc = "loop"
    /\ IF explorationQueue = <<>> \/ statesLimitReached
       THEN /\ engine' = [engine EXCEPT !.pc = "done"]
            /\ UNCHANGED <<explorationQueue, lastCall>>
       ELSE /\ explorationQueue' = Tail(explorationQueue)
            /\ lastCall' = [op |-> "shift", item |-> Head(explorationQueue),
                            dropped |-> depthReached(Head(explorationQueue))]
            /\ engine' = IF depthReached(Head(explorationQueue))
                         THEN engine
                         ELSE [pc |-> "restore", missed |-> engine.missed,
                               item |-> Head(explorationQueue)]
    /\ UNCHANGED <<browserVars, managerVars, graphVars, config, otherThanEngine>>

\* exploreAction, first part: restoreToState reloads the entry URL (and replays
\* nothing), then the action is marked explored.  A failed navigation is not
\* caught and ends the run.
EngineRestore ==
    /\ engine.pc = "restore"
    /\ \/ /\ page' \in ResetPages
          /\ exploredActions' = markActionExplored(exploredActions,
                                    engine.item.stateId, engine.item.action)
          /\ engine' = [engine EXCEPT !.pc = "execute"]
       \/ /\ engine' = [engine EXCEPT !.pc = "aborted"]
          /\ UNCHANGED <<page, exploredActions>>
    /\ UNCHANGED <<smStates, stateCounter, graphVars, config, explorationQueue,
                   lastCall, otherThanEngine>>

\* Explorer.executeAction returns true: the element was acted upon.
EngineExecute ==
    /\ engine.pc = "execute"
    /\ page' \in BrowserPages
    /\ engine' = [engine EXCEPT !.pc = "capture"]
    /\ UNCHANGED <<managerVars, graphVars, config, explorationQueue, lastCall,
                   otherThanEngine>>

\* Explorer.executeAction returns false: the element is not visible, or acting
\* on it throws or times out, whatever it did to the page before.
EngineActionFails ==
    /\ engine.pc = "execute"
    /\ page' \in BrowserPages
    /\ engine' = [engine EXCEPT !.pc = afterMiss, !.missed = TRUE]
    /\ UNCHANGED <<managerVars, graphVars, config, explorationQueue, lastCall,
                   otherThanEngine>>

\* exploreAction, last part: the state is captured, the transition recorded
\* and, if the state is another one, its actions queued.
EngineCapture ==
    /\ engine.pc = "capture"
    /\    LET r == captureState(smStates, stateCounter, exploredActions, page, clock)
              item == engine.item
          IN  /\ smStates' = r.states
              /\ stateCounter' = r.counter
              /\ exploredActions' = r.explored
              /\ gStates' = addState(gStates, r.state.id)
              /\ gTransitions' = addTransition(gTransitions,
                    [id |-> Len(gTransitions) + 1, fromStateId |-> item.stateId,
                     toStateId |-> r.state.id, action |-> item.action])
              /\ explorationQueue' =
                    IF r.state.id # item.stateId
                    THEN queueActionsForState(explorationQueue, r.explored, r.state,
                                              item.pathFromRoot)
                    ELSE explorationQueue
              /\ engine' = [engine EXCEPT !.pc = "loop"]
    /\ UNCHANGED <<browserVars, gEntry, config, lastCall, otherThanEngine>>

\* exploreAction, last part, when reading the page throws: the catch block
\* logs the error.
EngineCaptureThrows ==
    /\ engine.pc = "capture"
    /\ engine' = [engine EXCEPT !.pc = afterMiss, !.missed = TRUE]
    /\ UNCHANGED <<browserVars, managerVars, graphVars, config, explorationQueue,
                   lastCall, otherThanEngine>>

EngineNext ==
    \/ \E maxStates, maxDepth \in ConfigValues : EngineConstruct(maxStates, maxDepth)
    \/ EngineEntry
    \/ EngineLoop
    \/ EngineRestore
    \/ EngineExecute
    \/ EngineActionFails
    \/ EngineCapture
    \/ EngineCaptureThrows

EngineSpec == Init /\ [][EngineNext]_vars

-----------------------------------------------------------------------------
(* Claims about the autonomous run *)

\* The run is executing a queue item.
exploring == engine.pc \in {"restore", "execute", "capture"}

\* C11: no queue item whose path has maxDepth or more states is executed;
\* it is dropped, which changes neither page, states nor graph.  With
\* maxDepth = 1 no action is ever executed and the graph holds the entry
\* state alone.
C11_DepthLimit ==
    /\ [](exploring => Len(engine.item.pathFromRoot) < config.maxDepth)
    /\ []((engine.pc # "new" /\ config.maxDepth = 1) =>
             /\ SeqToSet(gStates) \subseteq {gEntry}
             /\ gTransitions = <<>>
             /\ \A id \in DOMAIN exploredActions : exploredActions[id] = {})
    /\ [][(EngineLoop /\ explorationQueue # <<>> /\ ~statesLimitReached
              /\ Len(Head(explorationQueue).pathFromRoot) >= config.maxDepth) =>
             /\ engine' = engine
             /\ explorationQueue' = Tail(explorationQueue)
             /\ UNCHANGED <<page, managerVars, graphVars>>]_vars

\* An item two states deep was dropped under maxDepth = 2, and a run with
\* maxDepth = 1 ended having dropped every item.
C11_Witness ==
    /\ lastCall.op = "shift"
    /\ lastCall.dropped
    /\ \/ config.maxDepth = 2 /\ Len(lastCall.item.pathFromRoot) = 2
       \/ config.maxDepth = 1 /\ engine.pc = "done" /\ config.maxStates > 1

\* C12: with maxStates >= 1 the graph never holds more than maxStates distinct
\* states, and no queue item is taken for execution once the number of states
\* has reached maxStates.
C12_StatesLimit ==
    /\ []((engine.pc # "new" /\ config.maxStates >= 1) =>
             Cardinality(SeqToSet(gStates)) <= config.maxStates)
    /\ []((exploring /\ engine.pc # "capture") => Len(smStates) < config.maxStates)
    /\ [][(EngineLoop /\ Cardinality(SeqToSet(gStates)) >= config.maxStates) =>
             /\ engine'.pc = "done"
             /\ UNCHANGED <<page, managerVars, graphVars, explorationQueue>>]_vars

\* A run has stopped at its limit of two or more states with items left in
\* the queue.
C12_Witness ==
    /\ engine.pc = "done"
    /\ config.maxStates >= 2
    /\ Cardinality(SeqToSet(gStates)) = config.maxStates
    /\ explorationQueue # <<>>

\* C19: an action that fails records no transition and adds no state, and the
\* run goes on: the queue is as it was, and the next turn of the loop takes
\* its head as it would have otherwise.
C19_MissesAreNotFatal ==
    [][/\ (EngineActionFails \/ EngineCaptureThrows) =>
             /\ engine'.pc = "loop"
             /\ UNCHANGED <<managerVars, graphVars, explorationQueue>>
       /\ (/\ EngineLoop
           /\ engine.missed
           /\ explorationQueue # <<>>
           /\ ~statesLimitReached
           /\ ~depthReached(Head(explorationQueue))) =>
             /\ engine'.pc = "restore"
             /\ engine'.item = Head(explorationQueue)]_vars

\* After an action failed, the next item of the queue has been executed and
\* its transition recorded.
C19_Witness ==
    /\ engine.missed
    /\ engine.pc = "loop"
    /\ Len(gTransitions) >= 1
    /\ lastCall.op = "shift"
    /\ lastCall.item.action = InputB

\* The state and the action key of a queue item.
pairOf(item) == <<item.stateId, getActionKey(item.action)>>

\* C21: the actions of a state are queued only when the state is captured for
\* the first time, so that no pair of a state and an action is queued twice,
\* and none is executed twice.
C21_QueuedOnce ==
    /\ [](\A i, j \in 1..Len(explorationQueue) :
             i # j => pairOf(explorationQueue[i]) # pairOf(explorationQueue[j]))
    /\ [][(EngineCapture /\ explorationQueue' # explorationQueue) =>
             Len(smStates') > Len(smStates)]_vars
    /\ [][(EngineRestore /\ engine'.pc = "execute") =>
             ~isActionExplored(exploredActions, engine.item.stateId,
                               engine.item.action)]_vars

\* The autonomous run when every browser operation returns or throws: the run
\* takes its next step.
FairEngineSpec == EngineSpec /\ WF_vars(EngineNext)

\* The run has ended: the loop was left, or a navigation threw.
ended == engine.pc \in {"done", "aborted"}

\* C23: whatever the application does and whatever maxStates and maxDepth are,
\* a run that was started ends: the queue empties or the state limit is
\* reached and the run is done, unless a navigation threw, which alone ends
\* the run otherwise.
C23_RunTerminates ==
    /\ (engine.pc = "entry") ~> ended
    /\ [][(engine'.pc = "done" /\ engine.pc # "done") =>
             (explorationQueue = <<>> \/ statesLimitReached)]_vars
    /\ [][(engine'.pc = "aborted" /\ engine.pc # "aborted") =>
             (engine.pc \in {"entry", "restore"} /\ UNCHANGED page)]_vars
    /\ [][ended => UNCHANGED vars]_vars

\* A run over an application with a cycle is done with an empty queue.
C23_Witness ==
    /\ engine.pc = "done"
    /\ explorationQueue = <<>>
    /\ ~statesLimitReached
    /\ \E i \in 1..Len(gTransitions) :
          gTransitions[i].toStateId < gTransitions[i].fromStateId

\* The id of the state that the page in the browser is an observation of, if
\* it was observed before.
stateShown == findStateByKey(smStates, computeStateKey(page.url, page.domHash)).id

\* C33: the engine executes the action of a queue item with the application in
\* the item's source state, and the transition it then records leads from that
\* state, by that action, to the state the application moved to.
C33_TransitionsAreTrue ==
    /\ [][EngineExecute => stateShown = engine.item.stateId]_vars
    /\ [][EngineCapture =>
             \E i \in 1..Len(gTransitions') :
                 /\ gTransitions'[i].fromStateId = engine.item.stateId
                 /\ gTransitions'[i].toStateId = stateShown'
                 /\ sameTransition(gTransitions'[i],
                                   [fromStateId |-> engine.item.stateId,
                                    toStateId |-> stateShown',
                                    action |-> engine.item.action])]_vars

depthOf(item) == Len(item.pathFromRoot)

\* The queue holds its items in non-decreasing length of pathFromRoot.
queueInDepthOrder ==
    \A i, j \in 1..Len(explorationQueue) :
        i <= j => depthOf(explorationQueue[i]) <= depthOf(explorationQueue[j])

\* A turn of the loop that takes an item off the queue.
dequeues == EngineLoop /\ explorationQueue' # explorationQueue

\* C34: the engine takes the item at the head of its queue and adds items at
\* its tail; the pathFromRoot lengths of successively dequeued items are
\* non-decreasing, and while an item of some depth is dequeued or executed no
\* item of a smaller depth is left in the queue.
C34_BreadthFirstOrder ==
    /\ [][dequeues =>
             /\ lastCall'.item = Head(explorationQueue)
             /\ explorationQueue' = Tail(explorationQueue)]_vars
    /\ [][(explorationQueue' # explorationQueue /\ ~dequeues) =>
             /\ Len(explorationQueue') > Len(explorationQueue)
             /\ SubSeq(explorationQueue', 1, Len(explorationQueue)) =
                   explorationQueue]_vars
    /\ [][(dequeues /\ lastCall.op = "shift") =>
             depthOf(lastCall.item) <= depthOf(lastCall'.item)]_vars
    /\ []queueInDepthOrder
    /\ [](lastCall.op = "shift" =>
             \A i \in 1..Len(explorationQueue) :
                 depthOf(lastCall.item) <= depthOf(explorationQueue[i]))

\* An item of depth 2 was dequeued while items of depth 2 and of depth 3 wait
\* in the queue.
C34_Witness ==
    /\ lastCall.op = "shift"
    /\ depthOf(lastCall.item) = 2
    /\ \E i, j \in 1..Len(explorationQueue) :
          /\ depthOf(explorationQueue[i]) = 2
          /\ depthOf(explorationQueue[j]) = 3

\* The items that a step added at the tail of the queue.
queuedBy(before, after) == SubSeq(after, Len(before) + 1, Len(after))

\* C36: the items queued for the entry state carry the path [entry], and the
\* items queued after executing an item with path p carry p extended by the
\* state that was reached; every item's path starts at the entry state and
\* ends at the item's state.  An item whose path has k + 1 states (its state
\* was reached by k actions) is executed only if k + 1 < maxDepth, and with
\* maxDepth = 1 no item is ever executed: the graph stays the entry state
\* alone, without transitions.
C36_PathsGrowByOne ==
    /\ [][EngineEntry =>
             \A i \in 1..Len(explorationQueue') :
                 /\ explorationQueue'[i].stateId = gEntry'
                 /\ explorationQueue'[i].pathFromRoot = <<gEntry'>>]_vars
    /\ [][EngineCapture =>
             LET added == queuedBy(explorationQueue, explorationQueue')
             IN  \A i \in 1..Len(added) :
                     /\ added[i].stateId = stateShown'
                     /\ added[i].pathFromRoot =
                           Append(engine.item.pathFromRoot, stateShown')]_vars
    /\ [](\A i \in 1..Len(explorationQueue) :
             LET item == explorationQueue[i]
             IN  /\ Len(item.pathFromRoot) >= 1
                 /\ item.pathFromRoot[1] = gEntry
                 /\ Last(item.pathFromRoot) = item.stateId
                 /\ item.stateId = gEntry => item.pathFromRoot = <<gEntry>>)
    /\ [][EngineExecute => depthOf(engine.item) + 1 <= config.maxDepth]_vars
    /\ [](config.maxDepth = 1 =>
             /\ ~exploring
             /\ gTransitions = <<>>
             /\ Len(gStates) <= 1)

\* The action of an item with a path of two states was executed and led to a
\* state whose items were queued with a path of three states.
C36_Witness ==
    /\ lastCall.op = "shift"
    /\ depthOf(lastCall.item) = 2
    /\ engine.pc = "loop"
    /\ ~engine.missed
    /\ \E i \in 1..Len(explorationQueue) :
          /\ depthOf(explorationQueue[i]) = 3
          /\ SubSeq(explorationQueue[i].pathFromRoot, 1, 2) =
                lastCall.item.pathFromRoot

\* C37: throughout an autonomous run every recorded transition joins two
\* states of the graph, the entry state is a state of the graph once it is
\* set, and computePaths has a path for every state of the graph, each other
\* state than the entry state being reached from it by recorded transitions.
C37_GraphIsConnected ==
    /\ \A i \in 1..Len(gTransitions) :
          /\ gTransitions[i].fromStateId \in SeqToSet(gStates)
          /\ gTransitions[i].toStateId \in SeqToSet(gStates)
    /\ gEntry = NoState => gStates = <<>>
    /\ gEntry # NoState =>
          /\ gEntry \in SeqToSet(gStates)
          /\ \A id \in SeqToSet(gStates) :
                /\ Len(pathsOf(id)) >= 1
                /\ id \in graphReachable

\* A run recorded a state that is two transitions away from the entry state,
\* and a transition back to the entry state.
C37_Witness ==
    /\ engine.pc = "done"
    /\ \E id \in SeqToSet(gStates) :
          Len(pathsOf(id)) >= 1 /\ Len(pathsOf(id)[1]) = 3
    /\ \E i \in 1..Len(gTransitions) :
          gTransitions[i].toStateId = gEntry /\ gTransitions[i].fromStateId # gEntry

-----------------------------------------------------------------------------
(* Claims about what the interactive controller records *)

\* The recorded transitions that one execution of the action from one state to
\* the other accounts for.
recordedFor(transitions, step) ==
    {i \in 1..Len(transitions) :
        /\ transitions[i].fromStateId = step.fromStateId
        /\ transitions[i].toStateId = step.toStateId
        /\ transitions[i].action.type = step.action.type
        /\ transitions[i].action.elementSelector = step.action.elementSelector}

\* C13: however often an action is executed from a state with the same
\* resulting state, the graph holds exactly one transition for it; every
\* successful execution appends exactly one step to the history, which no
\* operation shortens or rewrites, and which is at least as long as the list
\* of transitions.
C13_OneTransitionManySteps ==
    /\ [](/\ \A i \in 1..Len(explorationHistory) :
                Cardinality(recordedFor(gTransitions, explorationHistory[i])) = 1
          /\ Len(explorationHistory) >= Len(gTransitions))
    /\ [][/\ Len(explorationHistory') >= Len(explorationHistory)
          /\ SubSeq(explorationHistory', 1, Len(explorationHistory)) = explorationHistory
          /\ \A t \in Tasks :
                (ExecuteActionCapture(t) /\ tasks'[t].success) =>
                    Len(explorationHistory') = Len(explorationHistory) + 1]_vars

\* The same action was executed twice from the same state, with the same
\* result: two steps, one transition.
C13_Witness ==
    /\ Len(explorationHistory) = 2
    /\ explorationHistory[1] = explorationHistory[2]
    /\ explorationHistory[1].fromStateId # explorationHistory[1].toStateId
    /\ Len(gTransitions) = 1

-----------------------------------------------------------------------------
(* InteractiveServer: connections, and the messages that are no operation *)

otherThanSockets == <<browserVars, managerVars, graphVars, explorerVars, tasks,
                      captureLog, sessionVars, lastCall, engineVars>>

\* As clientsAfterError, were a client dropped for a message it got wrong.
clientsAfterError_Dropped(ws) == [sockets EXCEPT ![ws] = NoConnection]

\* The clients after an error was sent to one of them: sendError sends, and
\* nothing else.
clientsAfterError(ws) == sockets

\* handleConnection, up to the await in sendConnectionInit: the socket joins
\* the clients.  The server listens once the explorer is initialised.
ServerConnect(ws) ==
    /\ page # NoPage
    /\ noReplyPending
    /\ ~sockets[ws].registered
    /\ \A w \in Sockets : w < ws => sockets[w].registered
    /\ sockets' = [sockets EXCEPT ![ws] =
          [registered |-> TRUE, open |-> TRUE, inits |-> 0, early |-> FALSE]]
    /\ UNCHANGED otherThanSockets

\* sendConnectionInit after its await: the connection_init is sent.
ServerConnectionInit(ws) ==
    /\ sockets[ws].registered
    /\ sockets[ws].inits = 0
    /\ \A u \in Tasks : tasks[u].pc # "reply"
    /\ sockets' = [sockets EXCEPT ![ws].inits = @ + 1]
    /\ UNCHANGED otherThanSockets

\* The connection of a client ends: its socket is no longer open.
SocketCloses(ws) ==
    /\ noReplyPending
    /\ sockets[ws].registered
    /\ sockets[ws].open
    /\ sockets' = [sockets EXCEPT ![ws].open = FALSE]
    /\ UNCHANGED otherThanSockets

\* ws.on('close') and ws.on('error'): the socket leaves the clients.
HandleClose(ws) ==
    /\ noReplyPending
    /\ sockets[ws].registered
    /\ ~sockets[ws].open
    /\ sockets' = [sockets EXCEPT ![ws] = NoConnection]
    /\ UNCHANGED otherThanSockets

\* The state ids and action ids of the skip messages.
SkipStateIds == {1}
SkipActionIds == {<<1, getActionKey(ClickA)>>}

\* `payload.actionId.split(':').slice(1).join(':')`: the action id without the
\* state id it starts with.
actionKeyOf(actionId) == actionId[2]

\* InteractiveExplorer.skipAction
skipAction(skipped, stateId, actionKey) == skipped \cup {<<stateId, actionKey>>}

\* InteractiveExplorer.unskipAction
unskipAction(skipped, stateId, actionKey) == skipped \ {<<stateId, actionKey>>}

\* handleSkipAction: the action is marked, and the state is sent back.
HandleSkipAction(t, ws, stateId, actionId) ==
    /\ takesMessage(t)
    /\ canSend(ws)
    /\ skippedActions' = skipAction(skippedActions, stateId, actionKeyOf(actionId))
    /\ tasks' = [tasks EXCEPT ![t] =
          Replying(ws, "skip_action", "state_update", "none", "none", 0)]
    /\ UNCHANGED <<browserVars, managerVars, graphVars, currentStateId,
                   entryStateId, pathFromRoot, explorationHistory, executionLock,
                   unitVars>>

\* handleUnskipAction: the mark is removed, and the state is sent back.
HandleUnskipAction(t, ws, stateId, actionId) ==
    /\ takesMessage(t)
    /\ canSend(ws)
    /\ skippedActions' = unskipAction(skippedActions, stateId, actionKeyOf(actionId))
    /\ tasks' = [tasks EXCEPT ![t] =
          Replying(ws, "unskip_action", "state_update", "none", "none", 0)]
    /\ UNCHANGED <<browserVars, managerVars, graphVars, currentStateId,
                   entryStateId, pathFromRoot, explorationHistory, executionLock,
                   unitVars>>

\* What is wrong with a message: JSON.parse throws on it, or its type is none
\* of the cases of handleMessage.
Malformations == {"unparsable", "unknown_type"}

\* The message handler on a message that is no command: sendError, with
\* PARSE_ERROR from the catch of the listener or UNKNOWN_TYPE from the default
\* case of handleMessage.
HandleBadMessage(t, ws, malformation) ==
    /\ takesMessage(t)
    /\ canSend(ws)
    /\ ws # NoSocket
    /\ tasks' = [tasks EXCEPT ![t] =
          Replying(ws, malformation, "error",
                   IF malformation = "unparsable" THEN "PARSE_ERROR"
                   ELSE "UNKNOWN_TYPE", "none", 0)]
    /\ sockets' = clientsAfterError(ws)
    /\ UNCHANGED <<browserVars, managerVars, graphVars, explorerVars, captureLog,
                   sessionVars, lastCall, engineVars>>

ServerNext ==
    \/ ExplorerInit
    \/ \E ws \in Sockets : ServerConnect(ws)
    \/ \E ws \in Sockets : ServerConnectionInit(ws)
    \/ \E ws \in Sockets : SocketCloses(ws)
    \/ \E ws \in Sockets : HandleClose(ws)
    \/ \E t \in Tasks, ws \in Sockets, actionId \in ClientActionIds :
          ExecuteActionStart(t, ws, actionId)
    \/ \E t \in Tasks : ExecuteActionResolved(t)
    \/ \E t \in Tasks : ExecuteActionInternal(t)
    \/ \E t \in Tasks : ExecuteActionCapture(t)
    \/ \E t \in Tasks, ws \in Sockets : HandleGoToRoot(t, ws)
    \/ \E t \in Tasks : JumpReload(t)
    \/ \E t \in Tasks, ws \in Sockets, stateId \in SkipStateIds,
          actionId \in SkipActionIds : HandleSkipAction(t, ws, stateId, actionId)
    \/ \E t \in Tasks, ws \in Sockets, stateId \in SkipStateIds,
          actionId \in SkipActionIds : HandleUnskipAction(t, ws, stateId, actionId)
    \/ \E t \in Tasks, ws \in Sockets, malformation \in Malformations :
          HandleBadMessage(t, ws, malformation)
    \/ \E t \in Tasks : HandlerReply(t)

ServerSpec == Init /\ [][ServerNext]_vars

\* C15: every state of the graph can be reached from the entry state along
\* recorded transitions, so that no jumpToState to a state of the graph fails
\* for want of a path.
C15_EveryStateIsReachable ==
    /\ SeqToSet(gStates) \subseteq reachableFromEntry
    /\ \A t \in Tasks :
           (tasks[t].pc = "reply" /\ tasks[t].type = "error") =>
               tasks[t].message # "No path found"

-----------------------------------------------------------------------------
(* Claims about the outcome of executeAction *)

\* The recorded transitions equal to the one from s to t by the action.
equalTransitions(transitions, s, t, action) ==
    recordedFor(transitions, [fromStateId |-> s, toStateId |-> t, action |-> action])

\* C24: an executeAction that succeeds from the current state s with the
\* captured state t adds t to the graph if it is absent, records the transition
\* from s to t unless an equal one is recorded, makes t the current state, and
\* appends t to pathFromRoot if t is not s, leaving the path alone otherwise.
C24_SuccessAdvances ==
    [][\A u \in Tasks :
          ExecuteActionCapture(u) =>
              LET s == currentStateId
                  t == tasks'[u].newStateId
              IN  /\ tasks'[u].success
                  /\ tasks'[u].previousStateId = s
                  /\ gStates' = IF t \in SeqToSet(gStates) THEN gStates
                                 ELSE Append(gStates, t)
                  /\ gTransitions' =
                        IF equalTransitions(gTransitions, s, t, tasks[u].action) # {}
                        THEN gTransitions
                        ELSE Append(gTransitions,
                                    [id |-> Len(gTransitions) + 1, fromStateId |-> s,
                                     toStateId |-> t, action |-> tasks[u].action])
                  /\ currentStateId' = t
                  /\ pathFromRoot' = IF t # s THEN Append(pathFromRoot, t)
                                      ELSE pathFromRoot]_vars

\* An action led from the entry state to another state, and then from that
\* state to itself: the path grew once.
C24_Witness ==
    /\ Len(explorationHistory) = 2
    /\ explorationHistory[1].fromStateId # explorationHistory[1].toStateId
    /\ explorationHistory[2].fromStateId = explorationHistory[2].toStateId
    /\ pathFromRoot = <<explorationHistory[1].fromStateId,
                        explorationHistory[1].toStateId>>
    /\ currentStateId = explorationHistory[2].toStateId

\* The reply announces a change of the graph.
announcesGraph(reply) ==
    \E i \in 1..Len(sends(reply)) : sends(reply)[i].type = "graph_update"

\* C25: executeAction reports isNewState, and the graph change is announced,
\* exactly when the resulting state was created by the call; reaching a state
\* that was known before reports false.
C25_NewStateIsNew ==
    [][\A u \in Tasks :
          ExecuteActionCapture(u) =>
              /\ tasks'[u].isNewState <=> Len(smStates') > Len(smStates)
              /\ announcesGraph(tasks'[u]) <=> Len(smStates') > Len(smStates)]_vars

\* The task ends an executeAction that failed.
failing(u) ==
    \/ ExecuteActionResolved(u) /\ tasks[u].action = NotFound
    \/ ExecuteActionInternal(u) /\ tasks'[u].pc = "reply"

\* C26: an executeAction whose action id is not among the available actions,
\* or whose execution fails, returns success = false with the previous state
\* as the new one and isNewState = false, and changes neither graph, history,
\* current state nor path.
C26_FailureChangesNothing ==
    [][\A u \in Tasks :
          failing(u) =>
              /\ tasks'[u].pc = "reply"
              /\ tasks'[u].type = "action_result"
              /\ ~tasks'[u].success
              /\ tasks'[u].newStateId = tasks'[u].previousStateId
              /\ tasks'[u].previousStateId = currentStateId
              /\ ~tasks'[u].isNewState
              /\ UNCHANGED <<graphVars, smStates, stateCounter, explorationHistory,
                             currentStateId, pathFromRoot>>]_vars

\* After a first action had succeeded and led to another state, the execution
\* of an action has failed.
C26_Witness ==
    /\ Len(explorationHistory) >= 1
    /\ currentStateId # entryStateId
    /\ \E u \in Tasks :
          /\ tasks[u].pc = "reply"
          /\ tasks[u].type = "action_result"
          /\ ~tasks[u].success
          /\ tasks[u].message = "Action execution failed"

\* C35: whenever the initialised controller is Ready, pathFromRoot is a walk
\* of the recorded graph from the entry state to the current state: it is not
\* empty, starts at entryStateId, ends at currentStateId, and each consecutive
\* pair of it is joined by a recorded transition.
C35_PathIsAWalk ==
    (entryStateId # NoState /\ ~executionLock) =>
        /\ Len(pathFromRoot) > 0
        /\ pathFromRoot[1] = entryStateId
        /\ Last(pathFromRoot) = currentStateId
        /\ \A i \in 1..(Len(pathFromRoot) - 1) :
              \E k \in 1..Len(gTransitions) :
                  /\ gTransitions[k].fromStateId = pathFromRoot[i]
                  /\ gTransitions[k].toStateId = pathFromRoot[i + 1]

\* The isExplored that getAvailableActions reports for an action of the
\* current state.
isExplored(action) == isActionExplored(exploredActions, currentStateId, action)

\* The resultStateId that getAvailableActions reports for an explored action
\* of the current state: the target of the first transition from the state
\* with the action's selector and type, if there is one; left undefined, it
\* reads as no state id.
resultStateId(action) ==
    LET transitions == getTransitionsFrom(gTransitions, currentStateId)
        hits == {k \in 1..Len(transitions) :
                    /\ transitions[k].action.elementSelector = action.elementSelector
                    /\ transitions[k].action.type = action.type}
    IN  IF ~isExplored(action) \/ hits = {} THEN NoState
        ELSE transitions[SetMin(hits)].toStateId

\* A transition from the current state with the type and selector of the action
\* is recorded.
hasTransition(action) ==
    \E k \in 1..Len(gTransitions) :
        /\ gTransitions[k].fromStateId = currentStateId
        /\ gTransitions[k].action.elementSelector = action.elementSelector
        /\ gTransitions[k].action.type = action.type

\* C39, as claimed: while the controller is Ready, every available action of
\* the current state that is reported as explored has a transition from that
\* state with its type and selector, and with it a resultStateId.
C39_ExploredHasResult ==
    ~executionLock =>
        \A i \in 1..Len(getAvailableActions) :
            LET action == getAvailableActions[i].action
            IN  isExplored(action) =>
                    hasTransition(action) /\ resultStateId(action) # NoState

\* C39, amended: an action is reported as explored from the moment
\* executeAction has resolved it, and stays so whether its execution succeeds
\* or fails; while the controller is Ready, an available action of the current
\* state has a resultStateId exactly when it is explored and a transition from
\* that state with its type and selector is recorded, and every action with
\* such a transition is reported as explored.
C39_ExploredMeansTried ==
    /\ [](~executionLock =>
             \A i \in 1..Len(getAvailableActions) :
                 LET action == getAvailableActions[i].action
                 IN  /\ hasTransition(action) => isExplored(action)
                     /\ resultStateId(action) # NoState <=>
                           (isExplored(action) /\ hasTransition(action))
                     /\ resultStateId(action) # NoState =>
                           resultStateId(action) \in SeqToSet(gStates))
    /\ [][\A u \in Tasks :
             (ExecuteActionResolved(u) /\ tasks[u].action # NotFound) =>
                 isActionExplored(exploredActions', currentStateId,
                                  tasks[u].action)]_vars
    /\ [][\A u \in Tasks :
             (ExecuteActionInternal(u) /\ tasks'[u].pc = "reply") =>
                 /\ isActionExplored(exploredActions', currentStateId',
                                     tasks[u].action)
                 /\ UNCHANGED <<exploredActions, gTransitions>>]_vars
    /\ [][\A id \in DOMAIN exploredActions :
             /\ id \in DOMAIN exploredActions'
             /\ exploredActions[id] \subseteq exploredActions'[id]]_vars

\* The controller is Ready at a state other than the entry state, one of whose
\* actions is reported as explored though no transition from the state was
\* recorded: its only execution failed.
C39_Witness ==
    /\ ~executionLock
    /\ currentStateId # entryStateId
    /\ \A k \in 1..Len(gTransitions) : gTransitions[k].fromStateId # currentStateId
    /\ \E i \in 1..Len(getAvailableActions) :
          /\ isExplored(getAvailableActions[i].action)
          /\ resultStateId(getAvailableActions[i].action) = NoState

-----------------------------------------------------------------------------
(* The interactive controller driven by one client that waits for its replies
   and executes the actions it was offered *)

MaxReplayHistory == 3

ReplayNext ==
    \/ ExplorerInit
    \/ \E a \in Actions :
          ~executionLock
              /\ ExecuteActionWithin(1, NoSocket, <<currentStateId, getActionKey(a)>>,
                                     MaxReplayHistory)
    \/ \E id \in ClientStateIds : ~executionLock /\ HandleJumpToState(1, NoSocket, id)
    \/ OperationStep
    \/ HandlerEnds

ReplaySpec == Init /\ [][ReplayNext]_vars

\* The path leads from the entry state to the target along recorded
\* transitions.
isRecordedPath(path, targetStateId) ==
    /\ Len(path) >= 1
    /\ path[1] = entryStateId
    /\ path[Len(path)] = targetStateId
    /\ \A i \in 1..(Len(path) - 1) :
          \E k \in 1..Len(gTransitions) :
              /\ gTransitions[k].fromStateId = path[i]
              /\ gTransitions[k].toStateId = path[i + 1]

\* The least number of recorded transitions that lead from the entry state to
\* the state, which they reach.
distanceFromEntry(stateId) ==
    SetMin({n \in 0..Len(gTransitions) : stateId \in reachableIn({entryStateId}, n)})

\* C27: a jumpToState to a state other than the entry state that recorded
\* transitions reach is accepted with a path from the entry state to the
\* target that has the least number of edges; the jump resets to the entry
\* URL, executes the recorded action of each edge of the path in turn, and
\* makes the path its pathFromRoot.
C27_ReplaysAShortestPath ==
    [][\A u \in Tasks :
          /\ \A id \in ClientStateIds :
                (/\ tasks[u].pc = "idle"
                 /\ tasks'[u].pc # "idle"
                 /\ ~executionLock
                 /\ id # entryStateId
                 /\ id \in SeqToSet(gStates) \cap reachableFromEntry
                 /\ HandleJumpToState(u, NoSocket, id)) =>
                    /\ tasks'[u].pc = "reset"
                    /\ tasks'[u].i = 0
                    /\ isRecordedPath(tasks'[u].shortestPath, id)
                    /\ Len(tasks'[u].shortestPath) = distanceFromEntry(id) + 1
          /\ (JumpReset(u) /\ tasks'[u].pc = "replay") =>
                /\ page' \in ResetPages
                /\ tasks'[u].i = 0
                /\ tasks'[u].executed = 0
          /\ JumpReplay(u) =>
                /\ findTransition(tasks[u].shortestPath[tasks[u].i + 1],
                                  tasks[u].shortestPath[tasks[u].i + 2]).id
                      # NoTransition.id
                /\ tasks'[u].i = tasks[u].i + 1
                /\ tasks'[u].shortestPath = tasks[u].shortestPath
                /\ tasks'[u].executed \in {tasks[u].executed, tasks[u].executed + 1}
                /\ UNCHANGED <<graphVars, pathFromRoot, currentStateId>>
          /\ JumpCapture(u) =>
                /\ tasks[u].i = Len(tasks[u].shortestPath) - 1
                /\ pathFromRoot' = tasks[u].shortestPath]_vars

\* A jump to a state that two paths of different lengths reach has replayed
\* the one edge of the shorter, which is now the path from the root.
C27_Witness ==
    /\ pathFromRoot = <<entryStateId, currentStateId>>
    /\ currentStateId # entryStateId
    /\ tasks[1].pc = "reply"
    /\ tasks[1].op = "jump_to_state"
    /\ tasks[1].type = "state_update"
    /\ tasks[1].executed = 1
    /\ \E other \in SeqToSet(gStates) \ {entryStateId, currentStateId} :
          /\ findTransition(entryStateId, other).id # NoTransition.id
          /\ findTransition(other, currentStateId).id # NoTransition.id

-----------------------------------------------------------------------------
(* Claims about the server and its observers *)

\* What skipAction and unskipAction must leave alone.
skipFrame == <<page, smStates, stateCounter, exploredActions, gStates,
               gTransitions, gEntry, currentStateId, entryStateId, pathFromRoot,
               explorationHistory, executionLock>>

\* C14: skipAction adds the action key to the skipped actions of the state and
\* unskipAction removes it, and neither changes anything else of the
\* controller; executeAction takes a skipped action as it takes any other: the
\* call finds the action, marks it explored and executes it.
C14_SkipIsOnlyAMark ==
    [][/\ \A t \in Tasks, ws \in Sockets, stateId \in SkipStateIds,
            actionId \in SkipActionIds :
             /\ HandleSkipAction(t, ws, stateId, actionId) =>
                   /\ skippedActions' = skippedActions \cup {<<stateId, actionId[2]>>}
                   /\ UNCHANGED skipFrame
             /\ HandleUnskipAction(t, ws, stateId, actionId) =>
                   /\ skippedActions' = skippedActions \ {<<stateId, actionId[2]>>}
                   /\ UNCHANGED skipFrame
       /\ \A t \in Tasks, ws \in Sockets, a \in Actions :
             (/\ ExecuteActionStart(t, ws, <<currentStateId, getActionKey(a)>>)
              /\ ~executionLock
              /\ isActionSkipped(currentStateId, getActionKey(a))) =>
                 /\ tasks'[t].pc = "resolved"
                 /\ tasks'[t].action = a
       /\ \A t \in Tasks :
             (/\ ExecuteActionResolved(t)
              /\ isActionSkipped(currentStateId, getActionKey(tasks[t].action))) =>
                 /\ tasks'[t].pc = "internal"
                 /\ isActionExplored(exploredActions', currentStateId, tasks[t].action)
                 /\ UNCHANGED skippedActions]_vars

\* An action has been executed with success from a state where it is marked
\* as skipped.
C14_Witness ==
    \E t \in Tasks :
        /\ tasks[t].pc = "reply"
        /\ tasks[t].type = "action_result"
        /\ tasks[t].success
        /\ isActionSkipped(tasks[t].previousStateId, getActionKey(ClickA))

\* The reply broadcasts a message of the type to every client whose socket is
\* open.
broadcasts(reply, type) ==
    \A w \in Sockets :
        (sockets[w].registered /\ sockets[w].open) =>
            \E i \in 1..Len(sends(reply)) :
                /\ sends(reply)[i].type = type
                /\ w \in recipients(sends(reply)[i], reply.ws)

\* C16: an operation that adds a state or a transition to the graph ends with
\* a graph_update broadcast to every open observer, and one that changes
\* currentStateId with a state_update broadcast to every open observer.
C16_ChangesAreBroadcast ==
    [][\A t \in Tasks :
          (tasks'[t] # tasks[t] /\ tasks'[t].pc = "reply") =>
              /\ graphVars' # graphVars => broadcasts(tasks'[t], "graph_update")
              /\ currentStateId' # currentStateId =>
                    broadcasts(tasks'[t], "state_update")]_vars

\* C17: a connected observer is sent its connection_init before anything else
\* happens, once, and no message reaches it before.
C17_InitComesFirst ==
    /\ [](\A w \in Sockets : sockets[w].inits <= 1 /\ ~sockets[w].early)
    /\ [][\A w \in Sockets :
             (sockets[w].registered /\ sockets[w].inits = 0) =>
                 /\ sockets'[w].registered
                 /\ sockets'[w].inits = 1
                 /\ UNCHANGED tasks]_vars

\* An observer connects while the operation another observer asked for is in
\* progress.
C17_Witness ==
    \E w \in Sockets, t \in Tasks :
        /\ sockets[w].registered
        /\ sockets[w].inits = 0
        /\ tasks[t].pc = "capture"
        /\ tasks[t].ws # w

\* C18: a message that cannot be parsed or has an unknown type is answered
\* with an error sent to its client alone; the controller, the lock and the
\* clients are as before, and the client can send its next message.
C18_BadMessagesAreAnswered ==
    [][\A t \in Tasks, ws \in Sockets :
          /\ (\E malformation \in Malformations : HandleBadMessage(t, ws, malformation)) =>
                /\ tasks'[t].pc = "reply"
                /\ tasks'[t].ws = ws
                /\ sends(tasks'[t]) = <<ToSender("error")>>
                /\ tasks'[t].code \in {"PARSE_ERROR", "UNKNOWN_TYPE"}
                /\ UNCHANGED <<controllerState, executionLock, sockets>>
                /\ \A u \in Tasks \ {t} : tasks'[u] = tasks[u]
          /\ (HandlerReply(t) /\ tasks[t].op \in Malformations /\ tasks[t].ws = ws) =>
                /\ reached(tasks[t]) = {ws}
                /\ UNCHANGED <<controllerState, executionLock, sockets>>
                /\ canSend(ws)'
                /\ tasks'[t] = Idle]_vars

\* A message that cannot be parsed arrives from one of two observers while an
\* operation holds the lock.
C18_Witness ==
    \E t \in Tasks :
        /\ tasks[t].pc = "reply"
        /\ tasks[t].code = "PARSE_ERROR"
        /\ executionLock
        /\ \A w \in Sockets : sockets[w].registered /\ sockets[w].open

-----------------------------------------------------------------------------
(* A session carried from one run of the server to the next *)

\* InteractiveExplorer.toSession on the controller as it is.
explorerToSession ==
    [toSession(clock, currentStateId,
               [states |-> gStates, transitions |-> gTransitions,
                entryStateId |-> gEntry],
               explorationHistory)
        EXCEPT !["skippedActions"] = skippedActions]

\* InteractiveServer.stop: the session of the controller is taken to be saved.
ServerStop ==
    /\ page # NoPage
    /\ lastCall = NoCall
    /\ \A t \in Tasks : tasks[t] = Idle
    /\ memSession' = [present |-> TRUE, object |-> explorerToSession]
    /\ lastCall' = [op |-> "stop"]
    /\ UNCHANGED <<browserVars, managerVars, graphVars, explorerVars, tasks,
                   captureLog, clock, file, engineVars, serverVars>>

\* InteractiveServer.start in a new process: `new InteractiveExplorer(...)`,
\* with a new StateManager and a new StateGraph; init comes next.
ServerRestart ==
    /\ lastCall.op = "stop"
    /\ page' = NoPage
    /\ smStates' = <<>>
    /\ stateCounter' = 0
    /\ exploredActions' = [id \in {} |-> {}]
    /\ gStates' = <<>>
    /\ gTransitions' = <<>>
    /\ gEntry' = NoState
    /\ currentStateId' = NoState
    /\ entryStateId' = NoState
    /\ pathFromRoot' = <<>>
    /\ skippedActions' = {}
    /\ explorationHistory' = <<>>
    /\ executionLock' = FALSE
    /\ lastCall' = [op |-> "restart"]
    /\ UNCHANGED <<tasks, captureLog, sessionVars, engineVars, serverVars>>

\* `this.stateManager.restoreState(state)`: StateManager defines no
\* restoreState, so that the call throws a TypeError.
restoreStateThrows == TRUE

\* InteractiveServer.start, after init: fromSession(session). The session of
\* an initialised controller holds at least its entry state; the first state
\* is added to the graph, and the call of restoreState ends the restoration.
FromSession ==
    /\ lastCall.op = "restart"
    /\ page # NoPage
    /\ memSession.present
    /\ Len(memSession.object["stateGraph"].states) > 0
    /\ restoreStateThrows
    /\ gStates' = addState(gStates, memSession.object["stateGraph"].states[1])
    /\ lastCall' = [op |-> "fromSession", threw |-> TRUE, reached |-> FALSE]
    /\ UNCHANGED <<browserVars, managerVars, gTransitions, gEntry, explorerVars,
                   tasks, captureLog, sessionVars, engineVars, serverVars>>

RestoreNext ==
    \/ ExplorerInit
    \/ \E t \in Tasks, actionId \in ClientActionIds :
          lastCall = NoCall /\ ExecuteActionStart(t, NoSocket, actionId)
    \/ \E t \in Tasks : ExecuteActionResolved(t)
    \/ \E t \in Tasks : ExecuteActionInternal(t)
    \/ \E t \in Tasks : ExecuteActionCapture(t)
    \/ \E t \in Tasks, stateId \in SkipStateIds, actionId \in SkipActionIds :
          lastCall = NoCall /\ HandleSkipAction(t, NoSocket, stateId, actionId)
    \/ \E t \in Tasks : HandlerReply(t)
    \/ ServerStop
    \/ ServerRestart
    \/ FromSession

RestoreSpec == Init /\ [][RestoreNext]_vars

\* C20: fromSession(s), for a session s that toSession produced, completes on
\* a freshly initialised controller and leaves it with the states, the
\* transitions and the entry state of s, its skipped actions and its history,
\* with every action of a transition of s explored from its source state, and
\* at the current state of s when the replay reached it.
C20_FromSessionRestores ==
    lastCall.op = "fromSession" =>
        LET s == memSession.object
        IN  /\ ~lastCall.threw
            /\ SeqToSet(gStates) = SeqToSet(s["stateGraph"].states)
            /\ gTransitions = s["stateGraph"].transitions
            /\ gEntry = s["entryStateId"]
            /\ entryStateId = s["entryStateId"]
            /\ skippedActions = s["skippedActions"]
            /\ explorationHistory = s["explorationHistory"]
            /\ \A i \in 1..Len(s["stateGraph"].transitions) :
                  isActionExplored(exploredActions,
                                   s["stateGraph"].transitions[i].fromStateId,
                                   s["stateGraph"].transitions[i].action)
            /\ lastCall.reached => currentStateId = s["currentStateId"]

-----------------------------------------------------------------------------
(* A process from construction on: an autonomous run, or an interactive *)
(* session that may be stopped and resumed in a new process             *)

interactive == engine.pc = "new"

RunNext ==
    \/ interactive /\ lastCall = NoCall /\ FairNext
    \/ interactive /\ lastCall.op = "restart" /\ ExplorerInit
    \/ interactive /\ ServerStop
    \/ interactive /\ ServerRestart
    \/ interactive /\ FromSession
    \/ page = NoPage /\ lastCall = NoCall /\
          \E maxStates, maxDepth \in ConfigValues : EngineConstruct(maxStates, maxDepth)
    \/ ~interactive /\ EngineNext

RunSpec == Init /\ [][RunNext]_vars

\* A new process constructs its controller, with a new graph.
constructs == lastCall.op # "restart" /\ lastCall'.op = "restart"

\* C32: once the entry state id of the graph is set it keeps its value until
\* the controller of a new process is constructed, in an autonomous run and in
\* an interactive session, resumed or not; the controller's own entryStateId
\* is set with it and agrees with it; and only init and the start of
\* runExploration set it, each once.
C32_EntrySetOnce ==
    /\ [][(gEntry # NoState /\ ~constructs) => gEntry' = gEntry]_vars
    /\ [][(entryStateId # NoState /\ ~constructs) =>
             entryStateId' = entryStateId]_vars
    /\ [][gEntry' # gEntry =>
             \/ constructs /\ gEntry' = NoState
             \/ gEntry = NoState /\ ExplorerInit
             \/ gEntry = NoState /\ EngineEntry]_vars
    /\ [](interactive => entryStateId = gEntry)
    /\ [](gEntry # NoState => gEntry \in SeqToSet(gStates))

\* A resumed session: the new controller was initialised and fromSession was
\* called with a session whose graph holds several states.
C32_Witness ==
    /\ lastCall.op = "fromSession"
    /\ gEntry # NoState
    /\ Len(memSession.object["stateGraph"].states) >= 2
    /\ memSession.object["entryStateId"] # memSession.object["currentStateId"]

\* The ids of the states that State Identity holds.
managerIds == {smStates[i].id : i \in 1..Len(smStates)}

\* The states held before are held after, with their id, url and domHash.
statesKept ==
    /\ Len(smStates') >= Len(smStates)
    /\ \A i \in 1..Len(smStates) :
          /\ smStates'[i].id = smStates[i].id
          /\ smStates'[i].url = smStates[i].url
          /\ smStates'[i].domHash = smStates[i].domHash
    /\ SeqToSet(gStates) \subseteq SeqToSet(gStates')

\* C38: in an autonomous run and in an interactive session, resumed or not,
\* State Identity and the graph hold the same state ids, so that the current
\* state id of an initialised controller is the id of a state that
\* getCurrentState finds; as long as the process lives no state leaves either
\* of them, and no state's id, url or domHash changes.
C38_SameStatesEverywhere ==
    /\ [](managerIds = SeqToSet(gStates))
    /\ [](currentStateId # NoState =>
             /\ currentStateId \in SeqToSet(gStates)
             /\ explorerGetCurrentState.id = currentStateId)
    /\ [][~constructs => statesKept]_vars

\* fromSession was called on the new controller with a session of three
\* states, one of them created by a jump that missed its target.
C38_Witness ==
    /\ lastCall.op = "fromSession"
    /\ Len(memSession.object["stateGraph"].states) = 3
    /\ Len(memSession.object["stateGraph"].transitions) = 1
    /\ managerIds = {1}
    /\ currentStateId = 1

====
